---- MODULE Spec2Model ----
(***************************************************************************)
(* Model of the FMB003 TCP telemetry server (src/tcp-server/tcp_server.py).*)
(*                                                                         *)
(* One handle_client thread per connection: IMEI handshake, reassembly of  *)
(* Codec 8 frames from the receive buffer, decoding of AVL records, the    *)
(* storage filter (should_save_telemetry / store_telemetry) and the        *)
(* acknowledgement sent for each frame.                                    *)
(*                                                                         *)
(* Bytes are integers 0..255 and byte strings are sequences of them.       *)
(* Python indices are 0-based; the operators below take Python indices and *)
(* translate to the 1-based sequences of TLA+.                             *)
(***************************************************************************)
EXTENDS Integers, Sequences, FiniteSets, TLC

(***************************************************************************)
(* Program constants                                                       *)
(***************************************************************************)
\* Filtering thresholds (environment defaults).
MIN_DISTANCE_METERS == 50
MIN_SPEED_KMH == 5
MIN_TIME_INTERVAL_STATIONARY == 300
MIN_TIME_INTERVAL_MOVING == 10
MAX_TIME_WITHOUT_SAVE == 3600
\* client_socket.recv(1024)
RecvSize == 1024
\* while len(buffer) >= 12
MinPacket == 12
\* the heading change (degrees) that triggers a save while moving
AngleThreshold == 30
\* the satellite-count change that triggers a save
SatThreshold == 3

(***************************************************************************)
(* Bounds of the model                                                     *)
(***************************************************************************)
\* failures of the environment (database, socket) injected in one behaviour
MaxFaults == 1
\* steps of the wall clock in one behaviour
MaxTicks == 1

(***************************************************************************)
(* Python values                                                           *)
(***************************************************************************)
\* None where a byte string is expected (imei = None)
NoneBytes == <<-1>>
\* None where a vehicle id is expected (vehicle_id = None)
NoneId == -1

Min2(a, b) == IF a < b THEN a ELSE b

Abs(x) == IF x < 0 THEN -x ELSE x

\* s[a:b] for 0 <= a: the slice is cut at the end of s, never an error
Slice(s, a, b) == SubSeq(s, a + 1, Min2(b, Len(s)))

\* s[a:]
SliceFrom(s, a) == SubSeq(s, a + 1, Len(s))

\* TLC's integers are 32 bits wide: int.from_bytes saturates here at 2^30.
\* A saturated value is a payload length, which the code only compares with
\* the length of the buffer.
IntCap == 1073741824

\* int.from_bytes(s, 'big'), and struct.unpack('>H' / '>I') of a full slice
FromBytes(s) ==
  LET F[i \in 0..Len(s)] ==
        IF i = 0 THEN 0
        ELSE IF F[i - 1] >= IntCap \div 256 THEN IntCap
        ELSE F[i - 1] * 256 + s[i]
  IN  F[Len(s)]

\* struct.unpack('>i' / '>h') of a full slice: two's complement
FromBytesSigned(s) ==
  IF s[1] < 128 THEN FromBytes(s)
  ELSE -FromBytes([i \in 1..Len(s) |-> 255 - s[i]]) - 1

\* n.to_bytes(4, 'big') for 0 <= n < 2^31
ToBytes4(n) ==
  << (n \div 16777216) % 256, (n \div 65536) % 256, (n \div 256) % 256, n % 256 >>

\* a < b for byte strings of one length, as big-endian numbers
BytesLess(a, b) ==
  \E i \in 1..Len(a) : a[i] < b[i] /\ \A j \in 1..(i - 1) : a[j] = b[j]

\* bytes.decode('utf-8') succeeds. The identifiers of the model are ASCII or
\* hold the byte 0xFF, which no UTF-8 text contains.
Utf8Ok(s) == \A i \in 1..Len(s) : s[i] < 128

(***************************************************************************)
(* validate_imei: the vehicles table of the database                       *)
(***************************************************************************)
\* "123456789012345"
ImeiA == <<49, 50, 51, 52, 53, 54, 55, 56, 57, 48, 49, 50, 51, 52, 53>>
\* "9", an identifier no vehicle has
ImeiUnknown == <<57>>

\* "7", the identifier a second vehicle was registered with
ImeiB == <<55>>

\* SELECT id FROM vehicles WHERE imei = %s
VehicleTable(imei) == IF imei = ImeiA THEN 1 ELSE IF imei = ImeiB THEN 2 ELSE NoneId

\* the vehicle id, or None when there is no such vehicle or the database
\* failed (dbFails)
validate_imei(imei, dbFails) == IF dbFails THEN NoneId ELSE VehicleTable(imei)

\* Python truth of a vehicle id: None and 0 are false
Truthy(vehicle_id) == vehicle_id # NoneId /\ vehicle_id # 0

(***************************************************************************)
(* parse_avl_record                                                        *)
(***************************************************************************)
\* The first millisecond timestamp datetime.fromtimestamp refuses (year
\* 10000, UTC), as 8 big-endian bytes.
TimestampLimit == <<0, 0, 230, 119, 210, 31, 220, 0>>

\* datetime.fromtimestamp(timestamp_ms / 1000.0) does not raise
TimestampOk(ts) == BytesLess(ts, TimestampLimit)

\* a parser that steps over the count byte of a group only
SkipIoCount(data, offset, width) == IF offset < Len(data) THEN offset + 1 ELSE offset

\* the offset after one group of I/O elements: a count byte, then count
\* elements of width bytes each; the group is skipped when the offset is
\* already at or past the end of the data
SkipIoGroup(data, offset, width) ==
  IF offset < Len(data) THEN offset + 1 + data[offset + 1] * width ELSE offset

\* The fixed part of a record is 26 bytes; every field of it is read with a
\* slice or an index that raises when the bytes are missing.
FixedRecordSize == 26

\* parse_avl_record(data, offset): [ok, rec, consumed]; ok = FALSE stands
\* for the (None, 0) the except branch returns. latitude and longitude are
\* kept in the wire's unit, 1e-7 degree.
parse_avl_record(data, offset) ==
  IF offset + FixedRecordSize > Len(data)
       \/ ~TimestampOk(Slice(data, offset, offset + 8))
  THEN [ok |-> FALSE, consumed |-> 0]
  ELSE LET end == SkipIoGroup(data,
                    SkipIoGroup(data,
                      SkipIoGroup(data,
                        SkipIoGroup(data, offset + FixedRecordSize, 2), 3), 5), 9)
       IN  [ok |-> TRUE,
            consumed |-> end - offset,
            rec |-> [timestamp |-> Slice(data, offset, offset + 8),
                     priority |-> data[offset + 9],
                     longitude |-> FromBytesSigned(Slice(data, offset + 9, offset + 13)),
                     latitude |-> FromBytesSigned(Slice(data, offset + 13, offset + 17)),
                     altitude |-> FromBytesSigned(Slice(data, offset + 17, offset + 19)),
                     angle |-> FromBytes(Slice(data, offset + 19, offset + 21)),
                     satellites |-> data[offset + 22],
                     speed |-> FromBytes(Slice(data, offset + 22, offset + 24)),
                     event_io_id |-> data[offset + 25]]]

(***************************************************************************)
(* haversine_distance and should_save_telemetry                            *)
(***************************************************************************)
\* cos(latitude) in thousandths, latitude in 1e-7 degree: the series
\* 1 - x^2/2 + x^4/24 on whole tenths of a degree, cut at 90 degrees.
CosMilli(lat) ==
  LET tenths == Min2(Abs(lat \div 1000000), 900)
      y == (tenths * tenths) \div 100
  IN  1000 - (y * 1000) \div 6566 + (y * y) \div 258600

\* The square of haversine_distance in m^2. TLA+ has no reals: the distance
\* is taken on the plane tangent at the last point (1e-5 degree of latitude
\* is 1.112 m), and a difference of 0.1 degree or more counts as 0.1 degree,
\* which is far beyond every threshold.
haversine_distance_sq(lat1, lon1, lat2, lon2) ==
  LET dlat == Min2(Abs(lat2 \div 100 - lat1 \div 100), 10000)
      dlon == Min2(Abs(lon2 \div 100 - lon1 \div 100), 10000)
      dy == (dlat * 1112) \div 1000
      dx == (((dlon * 1112) \div 1000) * CosMilli(lat1)) \div 1000
  IN  dy * dy + dx * dx

\* a filter without the keep-alive rule
KeepAliveNever(time_since_last_save) == FALSE

\* RULE 1: time_since_last_save >= MAX_TIME_WITHOUT_SAVE
KeepAliveDue(time_since_last_save) == time_since_last_save >= MAX_TIME_WITHOUT_SAVE

\* a filter without the distance rule
DistanceNever(distance_sq) == FALSE

\* RULE 2: distance_meters >= MIN_DISTANCE_METERS, on the squares
DistanceReached(distance_sq) == distance_sq >= MIN_DISTANCE_METERS * MIN_DISTANCE_METERS

\* a heading difference that does not wrap at 360 degrees
AngleDiffNoWrap(current_angle, last_angle) == Abs(current_angle - last_angle)

\* angle_diff = abs(current_angle - last_angle), and 360 - angle_diff when
\* that is more than 180
AngleDiff(current_angle, last_angle) ==
  LET angle_abs == Abs(current_angle - last_angle)
  IN  IF angle_abs > 180 THEN 360 - angle_abs ELSE angle_abs

\* should_save_telemetry(vehicle_id, telemetry_data) with the table and the
\* clock as arguments: <<should_save, reason>>
should_save_telemetry(cache, current_time, vehicle_id, telemetry_data) ==
  IF vehicle_id \notin DOMAIN cache THEN <<TRUE, "first">>
  ELSE
    LET last_data == cache[vehicle_id].data
        time_since_last_save == current_time - cache[vehicle_id].timestamp
        distance_sq == haversine_distance_sq(last_data.latitude, last_data.longitude,
                         telemetry_data.latitude, telemetry_data.longitude)
        current_speed == telemetry_data.speed
        is_moving == current_speed >= MIN_SPEED_KMH
        speed_change == Abs(current_speed - last_data.speed)
        angle_diff == AngleDiff(telemetry_data.angle, last_data.angle)
    IN  IF KeepAliveDue(time_since_last_save) THEN <<TRUE, "max_time">>
        ELSE IF DistanceReached(distance_sq) THEN <<TRUE, "distance">>
        ELSE IF is_moving /\ time_since_last_save >= MIN_TIME_INTERVAL_MOVING
          THEN <<TRUE, "moving">>
        ELSE IF ~is_moving /\ time_since_last_save >= MIN_TIME_INTERVAL_STATIONARY
          THEN <<TRUE, "stationary">>
        ELSE IF speed_change >= MIN_SPEED_KMH THEN <<TRUE, "speed_change">>
        ELSE IF is_moving /\ angle_diff >= AngleThreshold THEN <<TRUE, "direction">>
        ELSE IF Abs(telemetry_data.satellites - last_data.satellites) >= SatThreshold
          THEN <<TRUE, "gps_quality">>
        ELSE <<FALSE, "filtered">>

(***************************************************************************)
(* store_telemetry                                                         *)
(***************************************************************************)
\* update_vehicle_status(vehicle_id, telemetry_data): the call as the sink
\* sees it; the function catches its own database error and returns False
update_vehicle_status(vehicle_id, telemetry_data, statusFails) ==
  [kind |-> IF statusFails THEN "status_fail" ELSE "status",
   vid |-> vehicle_id, rec |-> telemetry_data]

\* the table with telemetry_data as the vehicle's entry
WithEntry(cache, current_time, vehicle_id, telemetry_data) ==
  [v \in DOMAIN cache \cup {vehicle_id} |->
     IF v = vehicle_id
     THEN [data |-> telemetry_data, timestamp |-> current_time]
     ELSE cache[v]]

\* a store that forgets what it has written
CacheNotUpdated(cache, current_time, vehicle_id, telemetry_data) == cache

\* a store that remembers the points it skips
CacheOfSkipped(cache, current_time, vehicle_id, telemetry_data) ==
  WithEntry(cache, current_time, vehicle_id, telemetry_data)

\* a store that remembers the point before it writes it
CacheBeforeInsert(cache, current_time, vehicle_id, telemetry_data) ==
  WithEntry(cache, current_time, vehicle_id, telemetry_data)

\* a table that holds one entry, that of the vehicle written last
CacheOfOne(cache, current_time, vehicle_id, telemetry_data) ==
  WithEntry(<<>>, current_time, vehicle_id, telemetry_data)

\* the table after the INSERT is committed:
\* last_saved_telemetry[vehicle_id] = {'data': ..., 'timestamp': datetime.now()}
CacheAfterInsert(cache, current_time, vehicle_id, telemetry_data) ==
  WithEntry(cache, current_time, vehicle_id, telemetry_data)

\* the table after `if not should_save`: the branch does not write it
CacheAfterSkip(cache, current_time, vehicle_id, telemetry_data) == cache

\* the table after the INSERT has raised: the except branch is reached
\* before the table is written
CacheAfterFailure(cache, current_time, vehicle_id, telemetry_data) == cache

\* store_telemetry(vehicle_id, telemetry_data) on the table `cache` at time
\* current_time: the table afterwards, the calls made to the sink in order,
\* and the value returned. insertFails: the INSERT raises; statusFails: the
\* UPDATE of the vehicle's status raises.
store_telemetry(cache, current_time, vehicle_id, telemetry_data, insertFails, statusFails) ==
  LET decision == should_save_telemetry(cache, current_time, vehicle_id, telemetry_data)
  IN  IF ~decision[1]
      THEN [cache |-> CacheAfterSkip(cache, current_time, vehicle_id, telemetry_data),
            calls |-> <<update_vehicle_status(vehicle_id, telemetry_data, statusFails)>>,
            stored |-> FALSE, reason |-> decision[2]]
      ELSE IF insertFails
      THEN [cache |-> CacheAfterFailure(cache, current_time, vehicle_id, telemetry_data),
            calls |-> <<[kind |-> "record_fail", vid |-> vehicle_id, rec |-> telemetry_data]>>,
            stored |-> FALSE, reason |-> "database_error"]
      ELSE [cache |-> CacheAfterInsert(cache, current_time, vehicle_id, telemetry_data),
            calls |-> <<[kind |-> "record", vid |-> vehicle_id, rec |-> telemetry_data],
                        update_vehicle_status(vehicle_id, telemetry_data, statusFails)>>,
            stored |-> TRUE, reason |-> decision[2]]

(***************************************************************************)
(* The wire: what devices send                                             *)
(***************************************************************************)
\* u16 length + identifier
Handshake(ident) == <<Len(ident) \div 256, Len(ident) % 256>> \o ident

\* 2023-11-14 22:13:20 UTC in milliseconds
TsNow == <<0, 0, 1, 139, 207, 229, 104, 0>>

\* One AVL record of 30 bytes with empty I/O groups: timestamp, priority,
\* longitude, latitude, altitude, heading, satellites, speed, event id,
\* total I/O count and the four group counts.
AvlRecord(lon4, lat4, angle, sats, speed) ==
  TsNow \o <<1>> \o lon4 \o lat4 \o <<0, 100>> \o <<angle \div 256, angle % 256>>
    \o <<sats>> \o <<speed \div 256, speed % 256>> \o <<0, 0>> \o <<0, 0, 0, 0>>

\* 25.2797000 E, 54.6872000 N, heading 0, 8 satellites, speed 0
RecHome == AvlRecord(<<15, 17, 96, 72>>, <<32, 152, 154, 192>>, 0, 8, 0)
\* 100 m north of RecHome, moving at 40 km/h
RecAway == AvlRecord(<<15, 17, 96, 72>>, <<32, 152, 189, 232>>, 0, 8, 40)

\* preamble + payload length + codec id + record count + records + checksum
FrameBytes(codec, count, records, crc4) ==
  <<0, 0, 0, 0>> \o ToBytes4(2 + Len(records)) \o <<codec, count>> \o records \o crc4

NoCrc == <<0, 0, 0, 0>>

\* one record
FrameOne == FrameBytes(8, 1, RecHome, NoCrc)
\* two records
FrameTwo == FrameBytes(8, 2, RecHome \o RecAway, NoCrc)
\* two records declared, one present
FrameShort == FrameBytes(8, 2, RecAway, NoCrc)
\* no record
FrameEmpty == FrameBytes(8, 0, <<>>, NoCrc)
\* a codec the server does not decode, three records declared
FrameOther == FrameBytes(7, 3, <<>>, NoCrc)
\* a zero preamble and payload length 0
FrameZero == <<0, 0, 0, 0, 0, 0, 0, 0, 0, 5, 0, 0>>
\* bytes that belong to no frame
Garbage == <<0, 0, 9>>

\* What follows the opening on a connection: nothing, frames, and bytes that
\* belong to no frame before or after a frame.
Bodies ==
  { <<>>,
    FrameOne,
    FrameTwo \o FrameOne,
    FrameShort \o FrameEmpty,
    FrameOther \o FrameZero,
    Garbage \o FrameEmpty,
    FrameEmpty \o Garbage }

\* A device opens with the identifier of a vehicle, or with a length prefix
\* that announces 40 bytes and no identifier behind it.
Openings == {Handshake(ImeiA), <<0, 40>>}

\* A device that is turned away opens with an identifier no vehicle has, or
\* with one that is not UTF-8.
RejectedOpenings == {Handshake(ImeiUnknown), <<0, 1, 255>>}

Wires ==
  {o \o b : o \in Openings, b \in Bodies}
    \cup {o \o b : o \in RejectedOpenings, b \in {<<>>, FrameOne}}

(***************************************************************************)
(* State                                                                   *)
(***************************************************************************)
Conns == {1, 2}

VARIABLES
  pc,          \* per connection: where its handle_client thread stands
  buffer,      \* per connection: the local buffer
  imei,        \* per connection: the local imei (NoneBytes until set)
  vehicle_id,  \* per connection: the local vehicle_id (NoneId until set)
  loc,         \* per connection: the locals of the frame being processed
  stream,      \* per connection: every byte its device will send
  delivered,   \* per connection: how many of them recv has returned
  removed,     \* per connection: bytes taken off the front of buffer so far
  frames,      \* per connection: packets taken for parsing so far
  taken,       \* per connection: packets cut off the buffer so far
  last_saved_telemetry,  \* the global cache: vehicle_id -> [data, timestamp]
  now,         \* datetime.now(), in seconds
  ticks,       \* steps the clock has made
  faults,      \* failures injected so far
  log          \* everything sent on a socket or done to the sink, in order

vars == <<pc, buffer, imei, vehicle_id, loc, stream, delivered, removed, frames, taken,
          last_saved_telemetry, now, ticks, faults, log>>

\* the frame locals outside frame processing
NoFrame == [total_packet_size |-> 0, codec_id |-> 0, num_records |-> 0,
            offset |-> 0, i |-> 0, records_processed |-> 0]

\* A failure may be injected while the budget lasts.
FaultChoices(n) == IF faults + n <= MaxFaults THEN BOOLEAN ELSE {FALSE}

Bit(b) == IF b THEN 1 ELSE 0

\* The connection 1 has just been accepted; no other connection is open.
Init ==
  /\ pc = [c \in Conns |-> IF c = 1 THEN "recv" ELSE "closed"]
  /\ buffer = [c \in Conns |-> <<>>]
  /\ imei = [c \in Conns |-> NoneBytes]
  /\ vehicle_id = [c \in Conns |-> NoneId]
  /\ loc = [c \in Conns |-> NoFrame]
  /\ stream \in {[c \in Conns |-> IF c = 1 THEN w ELSE <<>>] : w \in Wires}
  /\ delivered = [c \in Conns |-> 0]
  /\ removed = [c \in Conns |-> 0]
  /\ frames = [c \in Conns |-> 0]
  /\ taken = [c \in Conns |-> 0]
  /\ last_saved_telemetry = <<>>
  /\ now = 0
  /\ ticks = 0
  /\ faults = 0
  /\ log = <<>>

(***************************************************************************)
(* handle_client                                                           *)
(***************************************************************************)
\* a close that ends every thread's connection
CloseEverySocket(pcs, c) == [d \in DOMAIN pcs |-> "closed"]

\* client_socket.close() and the return of handle_client: the socket closed
\* is the one the thread was given, and the thread's locals go with it
CloseSocket(pcs, c) == [pcs EXCEPT ![c] = "closed"]

\* the except/finally of handle_client: the error is printed, the socket
\* closed
Raise(c, what) ==
  /\ pc' = CloseSocket(pc, c)
  /\ log' = Append(log, [kind |-> what, conn |-> c, n |-> frames[c]])

\* the handshake is whole: len(buffer) >= 2 and len(buffer) >= 2 + imei_len
HandshakeComplete(buf) ==
  /\ Len(buf) >= 2
  /\ Len(buf) >= 2 + FromBytes(Slice(buf, 0, 2))

\* a handshake that leaves the identifier in the buffer
AcceptedBufferKept(buf, imei_len) == buf

\* buffer = buffer[2+imei_len:] when the vehicle is found
AcceptedBuffer(buf, imei_len) == SliceFrom(buf, 2 + imei_len)

\* PHASE 1 on a buffer that holds the whole handshake
HandshakeStep(c, buf) ==
  LET imei_len == FromBytes(Slice(buf, 0, 2))
      ident == Slice(buf, 2, 2 + imei_len)
  IN  IF ~Utf8Ok(ident)
      THEN /\ Raise(c, "error")
           /\ buffer' = [buffer EXCEPT ![c] = buf]
           /\ UNCHANGED <<imei, vehicle_id, removed, faults>>
      ELSE \E dbFails \in FaultChoices(1) : \E sendFails \in FaultChoices(1 + Bit(dbFails)) :
             LET vid == validate_imei(ident, dbFails)
             IN  /\ imei' = [imei EXCEPT ![c] = ident]
                 /\ vehicle_id' = [vehicle_id EXCEPT ![c] = vid]
                 /\ faults' = faults + Bit(dbFails) + Bit(sendFails)
                 /\ IF Truthy(vid)
                    THEN /\ buffer' = [buffer EXCEPT ![c] = AcceptedBuffer(buf, imei_len)]
                         /\ removed' = [removed EXCEPT ![c] = @ + 2 + imei_len]
                         /\ IF sendFails
                            THEN Raise(c, "send_fail")
                            ELSE /\ pc' = [pc EXCEPT ![c] = "recv"]
                                 /\ log' = Append(log, [kind |-> "reply", conn |-> c,
                                                        n |-> 0, bytes |-> <<1>>])
                    ELSE /\ buffer' = [buffer EXCEPT ![c] = buf]
                         /\ UNCHANGED removed
                         /\ pc' = CloseSocket(pc, c)
                         /\ log' = Append(log, IF sendFails
                                               THEN [kind |-> "send_fail", conn |-> c, n |-> 0]
                                               ELSE [kind |-> "reply", conn |-> c,
                                                     n |-> 0, bytes |-> <<0>>])

\* a handler that looks for a handshake on every read
AwaitsIdentifierAlways(id) == TRUE

\* if imei is None
AwaitsIdentifier(id) == id = NoneBytes

\* a buffer that is one module-level variable for all the threads
Shared(locals, c, value) == [d \in DOMAIN locals |-> value]

\* the assignment to a local variable of connection c's handle_client: each
\* call of the function has its own buffer, imei and vehicle_id
Own(locals, c, value) == [locals EXCEPT ![c] = value]

\* data = client_socket.recv(1024) returns k bytes; buffer += data; PHASE 1
\* when imei is None and the handshake is whole, else on to PHASE 2
Recv(c) ==
  /\ pc[c] = "recv"
  /\ \E k \in 1..Min2(RecvSize, Len(stream[c]) - delivered[c]) :
       LET data == SubSeq(stream[c], delivered[c] + 1, delivered[c] + k)
           buf == buffer[c] \o data
       IN  /\ delivered' = [delivered EXCEPT ![c] = @ + k]
           /\ IF AwaitsIdentifier(imei[c]) /\ HandshakeComplete(buf)
              THEN HandshakeStep(c, buf)
              ELSE /\ buffer' = Own(buffer, c, buf)
                   /\ pc' = [pc EXCEPT ![c] = "scan"]
                   /\ UNCHANGED <<imei, vehicle_id, removed, faults, log>>
  /\ UNCHANGED <<loc, stream, frames, taken, last_saved_telemetry, now, ticks>>

\* recv returns b'': the device has closed; break, then finally
RecvEof(c) ==
  /\ pc[c] = "recv"
  /\ delivered[c] = Len(stream[c])
  /\ pc' = CloseSocket(pc, c)
  /\ UNCHANGED <<buffer, imei, vehicle_id, loc, stream, delivered, removed, frames, taken,
                 last_saved_telemetry, now, ticks, faults, log>>

\* total_packet_size = 8 + data_length + 4
\* a reassembler that leaves the 4 checksum bytes out of the packet size
total_packet_size_without_crc(data_length) == 8 + data_length

total_packet_size(data_length) == 8 + data_length + 4

\* preamble != 0
BadPreamble(buf) == FromBytes(Slice(buf, 0, 4)) # 0

\* the size of the packet whose header is at the head of the buffer
HeadPacketSize(buf) == total_packet_size(FromBytes(Slice(buf, 4, 8)))

\* PHASE 2, the loop condition fails or the packet is not complete: back to
\* recv
ScanWait(c) ==
  /\ pc[c] = "scan"
  /\ \/ Len(buffer[c]) < MinPacket
     \/ /\ ~BadPreamble(buffer[c])
        /\ Len(buffer[c]) < HeadPacketSize(buffer[c])
  /\ pc' = [pc EXCEPT ![c] = "recv"]
  /\ UNCHANGED <<buffer, imei, vehicle_id, loc, stream, delivered, removed, frames, taken,
                 last_saved_telemetry, now, ticks, faults, log>>

\* a resynchronisation that throws the whole bad preamble away
ResyncDropPreamble(buf) == SliceFrom(buf, 4)

\* buffer = buffer[1:]
ResyncDrop(buf) == SliceFrom(buf, 1)

\* PHASE 2, preamble != 0: one byte is dropped; continue
Resync(c) ==
  /\ pc[c] = "scan"
  /\ Len(buffer[c]) >= MinPacket
  /\ BadPreamble(buffer[c])
  /\ buffer' = [buffer EXCEPT ![c] = ResyncDrop(@)]
  /\ removed' = [removed EXCEPT ![c] = @ + Len(buffer[c]) - Len(ResyncDrop(buffer[c]))]
  /\ UNCHANGED <<pc, imei, vehicle_id, loc, stream, delivered, frames, taken,
                 last_saved_telemetry, now, ticks, faults, log>>

\* a handler that parses the records of every codec
AnyCodec(codec_id) == TRUE

\* codec_id == 0x08 or codec_id == 142
SupportedCodec(codec_id) == codec_id = 8 \/ codec_id = 142

\* PHASE 2, a complete packet is at the head of the buffer: it is taken as
\* the packet to parse, codec_id = packet[8], num_records = packet[9]
BeginFrame(c) ==
  /\ pc[c] = "scan"
  /\ Len(buffer[c]) >= MinPacket
  /\ ~BadPreamble(buffer[c])
  /\ Len(buffer[c]) >= HeadPacketSize(buffer[c])
  /\ LET total == HeadPacketSize(buffer[c])
         packet == Slice(buffer[c], 0, total)
     IN  IF Len(packet) < 10
         THEN \* packet[8] or packet[9] raises IndexError
              /\ Raise(c, "error")
              /\ UNCHANGED <<loc, frames>>
         ELSE /\ frames' = [frames EXCEPT ![c] = @ + 1]
              /\ loc' = [loc EXCEPT ![c] =
                           [total_packet_size |-> total, codec_id |-> packet[9],
                            num_records |-> packet[10], offset |-> 10, i |-> 0,
                            records_processed |-> 0]]
              /\ log' = Append(log, [kind |-> "frame", conn |-> c, n |-> frames[c] + 1,
                                     at |-> removed[c], size |-> total])
              /\ pc' = [pc EXCEPT ![c] =
                          IF SupportedCodec(packet[9]) /\ packet[10] > 0
                          THEN "records" ELSE "ack"]
  /\ UNCHANGED <<buffer, imei, vehicle_id, stream, delivered, removed, taken,
                 last_saved_telemetry, now, ticks, faults>>

\* packet = buffer[:total_packet_size]
Packet(c) == Slice(buffer[c], 0, loc[c].total_packet_size)

\* the calls of one record as the log keeps them: with the connection, the
\* number of the frame, the index of the record and the offset it was
\* parsed at
Tagged(calls, c, n, i, offset) ==
  [j \in 1..Len(calls) |->
     [kind |-> calls[j].kind, conn |-> c, n |-> n, i |-> i, offset |-> offset,
      vid |-> calls[j].vid, rec |-> calls[j].rec]]

\* a handler that lets the parse failure end the connection
CloseOnParseFailure == "closed"

\* a record loop that parses every record at the same place
SameOffset(offset, bytes_consumed) == offset

\* where the thread goes when a record does not parse: break, to the
\* acknowledgement
AfterParseFailure == "ack"

\* offset += bytes_consumed
NextOffset(offset, bytes_consumed) == offset + bytes_consumed

\* a record loop that goes on until a record does not parse
MoreRecordsAlways(i, num_records) == TRUE

\* `for i in range(num_records)` has another pass to make after pass i
MoreRecords(i, num_records) == i + 1 < num_records

\* one pass of `for i in range(num_records)`: parse_avl_record, then
\* store_telemetry, or break when the record does not parse
RecordStep(c) ==
  /\ pc[c] = "records"
  /\ LET r == parse_avl_record(Packet(c), loc[c].offset)
     IN  IF ~r.ok
         THEN /\ log' = Append(log, [kind |-> "parse_fail", conn |-> c,
                                     n |-> frames[c], i |-> loc[c].i,
                                     offset |-> loc[c].offset])
              /\ pc' = [pc EXCEPT ![c] = AfterParseFailure]
              /\ UNCHANGED <<loc, last_saved_telemetry, faults>>
         ELSE \E insertFails \in FaultChoices(1) :
              \E statusFails \in FaultChoices(1 + Bit(insertFails)) :
                LET s == store_telemetry(last_saved_telemetry, now, vehicle_id[c],
                                         r.rec, insertFails, statusFails)
                    used == {s.calls[j].kind : j \in 1..Len(s.calls)}
                IN  /\ insertFails => "record_fail" \in used
                    /\ statusFails => "status_fail" \in used
                    /\ last_saved_telemetry' = s.cache
                    /\ faults' = faults + Bit(insertFails) + Bit(statusFails)
                    /\ log' = log \o Tagged(s.calls, c, frames[c], loc[c].i, loc[c].offset)
                    /\ loc' = [loc EXCEPT ![c].i = @ + 1,
                                          ![c].records_processed = @ + 1,
                                          ![c].offset = NextOffset(@, r.consumed)]
                    /\ pc' = [pc EXCEPT ![c] =
                                IF MoreRecords(loc[c].i, loc[c].num_records)
                                THEN "records" ELSE "ack"]
  /\ UNCHANGED <<buffer, imei, vehicle_id, stream, delivered, removed, frames, taken,
                 now, ticks>>

\* an acknowledgement that counts the records that were decoded
AckProcessed(num_records, records_processed) == records_processed

\* a handler that answers only the packets whose codec it parses
SendsAckIfSupported(codec_id) == SupportedCodec(codec_id)

\* the count the acknowledgement carries: num_records.to_bytes(4, 'big')
AckCount(num_records, records_processed) == num_records

\* both branches of the codec test send the acknowledgement
SendsAck(codec_id) == TRUE

\* a handler that leaves the packet it has answered in the buffer
AfterPacketKept(buf, total_size) == buf

\* buffer = buffer[total_packet_size:]
AfterPacket(buf, total_size) == SliceFrom(buf, total_size)

\* client_socket.sendall(ack); buffer = buffer[total_packet_size:]
SendAck(c) ==
  /\ pc[c] = "ack"
  /\ \E sendFails \in FaultChoices(1) :
       /\ sendFails => SendsAck(loc[c].codec_id)
       /\ faults' = faults + Bit(sendFails)
       /\ IF sendFails
          THEN /\ Raise(c, "send_fail")
               /\ UNCHANGED <<buffer, removed, taken, loc>>
          ELSE /\ log' = IF SendsAck(loc[c].codec_id)
                         THEN Append(log, [kind |-> "ack", conn |-> c, n |-> frames[c],
                                           bytes |-> ToBytes4(AckCount(loc[c].num_records,
                                                                 loc[c].records_processed))])
                         ELSE log
               /\ buffer' = [buffer EXCEPT ![c] = AfterPacket(@, loc[c].total_packet_size)]
               /\ removed' = [removed EXCEPT ![c] =
                                @ + Min2(loc[c].total_packet_size, Len(buffer[c]))]
               /\ taken' = [taken EXCEPT ![c] = @ + 1]
               /\ loc' = [loc EXCEPT ![c] = NoFrame]
               /\ pc' = [pc EXCEPT ![c] = "scan"]
  /\ UNCHANGED <<imei, vehicle_id, stream, delivered, frames,
                 last_saved_telemetry, now, ticks>>

\* what the clock may advance by between two readings
TickSteps == {MIN_TIME_INTERVAL_MOVING, MIN_TIME_INTERVAL_STATIONARY, MAX_TIME_WITHOUT_SAVE}

\* Time passes. The clock is only ever read against the timestamps of the
\* cache, so it is let run once the cache holds one.
Tick ==
  /\ ticks < MaxTicks
  /\ DOMAIN last_saved_telemetry # {}
  /\ \E c \in Conns : pc[c] # "closed"
  /\ \E d \in TickSteps : now' = now + d
  /\ ticks' = ticks + 1
  /\ UNCHANGED <<pc, buffer, imei, vehicle_id, loc, stream, delivered, removed, frames, taken,
                 last_saved_telemetry, faults, log>>

Next ==
  \/ \E c \in Conns : Recv(c)
  \/ \E c \in Conns : RecvEof(c)
  \/ \E c \in Conns : ScanWait(c)
  \/ \E c \in Conns : Resync(c)
  \/ \E c \in Conns : BeginFrame(c)
  \/ \E c \in Conns : RecordStep(c)
  \/ \E c \in Conns : SendAck(c)
  \/ Tick

Spec == Init /\ [][Next]_vars

(***************************************************************************)
(* store_telemetry on its own: points of one vehicle given to the function *)
(* directly, with the clock running between the calls                      *)
(***************************************************************************)
\* the vehicles whose points are stored
Vehicles == {1}

\* the record parse_avl_record makes of a point at longitude 25.2797 E
Point(lat4, angle, sats, speed) ==
  parse_avl_record(AvlRecord(<<15, 17, 96, 72>>, lat4, angle, sats, speed), 0).rec

\* 54.6872000 N, and 50 m and 100 m north of it
LatHome == <<32, 152, 154, 192>>
LatEdge == <<32, 152, 172, 84>>
LatFar == <<32, 152, 189, 232>>

\* The points: at rest at home; 50 m and 100 m away; driving with headings
\* 10, 350 and 40; at the moving threshold; with 5 satellites; at rest with
\* another heading.
Points ==
  { Point(LatHome, 10, 8, 0),
    Point(LatEdge, 10, 8, 0),
    Point(LatFar, 10, 8, 0),
    Point(LatHome, 10, 8, 40),
    Point(LatHome, 350, 8, 40),
    Point(LatHome, 40, 8, 40),
    Point(LatHome, 200, 8, 5),
    Point(LatHome, 10, 5, 0),
    Point(LatHome, 200, 8, 0) }

\* what the clock may advance by between two calls
PassSteps == TickSteps \cup {1}

\* No connection is open; the table is empty.
InitFilter ==
  /\ pc = [c \in Conns |-> "closed"]
  /\ buffer = [c \in Conns |-> <<>>]
  /\ imei = [c \in Conns |-> NoneBytes]
  /\ vehicle_id = [c \in Conns |-> NoneId]
  /\ loc = [c \in Conns |-> NoFrame]
  /\ stream = [c \in Conns |-> <<>>]
  /\ delivered = [c \in Conns |-> 0]
  /\ removed = [c \in Conns |-> 0]
  /\ frames = [c \in Conns |-> 0]
  /\ taken = [c \in Conns |-> 0]
  /\ last_saved_telemetry = <<>>
  /\ now = 0
  /\ ticks = 0
  /\ faults = 0
  /\ log = <<>>

\* the rows of the telemetry table the log remembers: of the earlier calls
\* it keeps the latest row written for each vehicle
LatestRows(l) ==
  SelectSeq([k \in 1..Len(l) |->
               [l[k] EXCEPT !.kind =
                  IF l[k].kind = "record"
                       /\ \A j \in (k + 1)..Len(l) :
                            ~(l[j].kind = "record" /\ l[j].vid = l[k].vid)
                  THEN "record" ELSE "old"]],
            LAMBDA e : e.kind = "record")

\* store_telemetry(v, p) is called. The log gets the call (with the table
\* and the time it found) and the calls it made to the sink.
Evaluate(v, p) ==
  \E insertFails \in FaultChoices(1) :
  \E statusFails \in FaultChoices(1 + Bit(insertFails)) :
    LET s == store_telemetry(last_saved_telemetry, now, v, p, insertFails, statusFails)
        used == {s.calls[j].kind : j \in 1..Len(s.calls)}
    IN  /\ insertFails => "record_fail" \in used
        /\ statusFails => "status_fail" \in used
        /\ last_saved_telemetry' = s.cache
        /\ faults' = faults + Bit(insertFails) + Bit(statusFails)
        /\ log' = LatestRows(log)
                    \o <<[kind |-> "store", conn |-> 0, n |-> 0, i |-> 0, offset |-> 0,
                          vid |-> v, rec |-> p, at |-> now,
                          cache |-> last_saved_telemetry,
                          stored |-> s.stored, reason |-> s.reason]>>
                    \o Tagged(s.calls, 0, 0, 0, 0)
        /\ UNCHANGED <<pc, buffer, imei, vehicle_id, loc, stream, delivered, removed,
                       frames, taken, now, ticks>>

\* Time passes between two calls.
Pass ==
  /\ ticks < MaxTicks
  /\ \E d \in PassSteps : now' = now + d
  /\ ticks' = ticks + 1
  /\ UNCHANGED <<pc, buffer, imei, vehicle_id, loc, stream, delivered, removed, frames, taken,
                 last_saved_telemetry, faults, log>>

NextFilter ==
  \/ \E v \in Vehicles : \E p \in Points : Evaluate(v, p)
  \/ Pass

FilterSpec == InitFilter /\ [][NextFilter]_vars

(***************************************************************************)
(* Reading the state                                                       *)
(***************************************************************************)
\* the bytes recv has returned on connection c
Received(c) == SubSeq(stream[c], 1, delivered[c])

\* the part of the log that belongs to connection c
ConnLog(c) == SelectSeq(log, LAMBDA e : e.conn = c)

\* the positions of the log with an event of connection c of one of the kinds
Events(c, kinds) == {k \in 1..Len(log) : log[k].conn = c /\ log[k].kind \in kinds}

\* what frame processing leaves in the log
SinkKinds == {"record", "record_fail", "status", "status_fail"}
FrameKinds == SinkKinds \cup {"frame", "parse_fail", "ack"}

\* the locals of one handle_client thread
ConnState(c) == <<pc[c], buffer[c], imei[c], vehicle_id[c], loc[c]>>

\* the step is one of connection c's thread
Moves(c) == ConnState(c)' # ConnState(c)

\* a complete packet is at the head of the buffer
CompleteFrameAtHead(buf) ==
  /\ Len(buf) >= MinPacket
  /\ ~BadPreamble(buf)
  /\ Len(buf) >= HeadPacketSize(buf)

\* The frames PHASE 2 takes out of buf when it runs once over it, each with
\* its place (at bytes after the start) and its size.
RECURSIVE FramesInOneScan(_, _)
FramesInOneScan(buf, at) ==
  IF Len(buf) < MinPacket THEN <<>>
  ELSE IF BadPreamble(buf) THEN FramesInOneScan(SliceFrom(buf, 1), at + 1)
  ELSE IF Len(buf) < HeadPacketSize(buf) THEN <<>>
  ELSE <<[at |-> at, size |-> HeadPacketSize(buf)]>>
         \o FramesInOneScan(SliceFrom(buf, HeadPacketSize(buf)), at + HeadPacketSize(buf))

\* The frames handle_client takes out of the bytes w when one recv returns
\* all of them: a whole handshake ends the pass (continue, or return), and
\* anything else goes through PHASE 2.
OneReadFrames(w) == IF HandshakeComplete(w) THEN <<>> ELSE FramesInOneScan(w, 0)

\* the frames connection c has taken out so far, in order
EmittedFrames(c) ==
  LET f == SelectSeq(log, LAMBDA e : e.conn = c /\ e.kind = "frame")
  IN  [k \in 1..Len(f) |-> [at |-> f[k].at, size |-> f[k].size]]

(***************************************************************************)
(* Claims                                                                  *)
(***************************************************************************)

\* C1: on a connection whose identifier has not been resolved to a vehicle
\* (handshake still awaited, or rejected) no frame is decoded, the sink is
\* never called and no frame acknowledgement is sent; an identifier that
\* does not resolve is answered with the byte 0x00 (unless the send itself
\* fails) and the connection is closed.
C1_NoFrameUnlessResolved ==
  \A c \in Conns :
    ~Truthy(vehicle_id[c]) =>
      /\ Events(c, FrameKinds) = {}
      /\ imei[c] # NoneBytes =>
           /\ pc[c] = "closed"
           /\ \/ ConnLog(c) = <<[kind |-> "reply", conn |-> c, n |-> 0, bytes |-> <<0>>]>>
              \/ ConnLog(c) = <<[kind |-> "send_fail", conn |-> c, n |-> 0]>>

\* C2: while fewer than 2 + N bytes have been received (N the length
\* prefix) nothing is sent and no byte leaves the buffer, however the
\* handshake is split; the identifier given to the directory is the N
\* bytes after the prefix.
C2_HandshakeOnly ==
  \A c \in Conns :
    /\ ~HandshakeComplete(Received(c)) =>
         /\ buffer[c] = Received(c)
         /\ ConnLog(c) = <<>>
    /\ imei[c] # NoneBytes =>
         imei[c] = Slice(stream[c], 2, 2 + FromBytes(Slice(stream[c], 0, 2)))

\* C3: chunk-invariance: once every byte of the stream has been received
\* and the thread is waiting (or the device has closed), the frames taken
\* out are the frames one read of all the bytes takes out, whatever the
\* reads were (no failure injected).
C3_ChunkInvariance ==
  \A c \in Conns :
    (faults = 0 /\ delivered[c] = Len(stream[c]) /\ pc[c] \in {"recv", "closed"})
      => EmittedFrames(c) = OneReadFrames(stream[c])

\* C4, first part: a packet is taken for decoding only when all 8 + L + 4
\* bytes of it are in the buffer behind a zero preamble.
C4_FrameIsWhole ==
  \A c \in Conns :
    pc[c] \in {"records", "ack"} =>
      LET L == FromBytes(Slice(buffer[c], 4, 8))
      IN  /\ ~BadPreamble(buffer[c])
          /\ Len(buffer[c]) >= 8 + L + 4
          /\ loc[c].total_packet_size = 8 + L + 4

\* C4, second part: with a zero preamble and a length L at the head of the
\* buffer and fewer than 8 + L + 4 bytes in it, the scan ends the read: no
\* frame, no acknowledgement, the buffer as it was.
C4_PartialWaits ==
  \A c \in Conns :
    LET L == FromBytes(Slice(buffer[c], 4, 8))
    IN  (/\ pc[c] = "scan"
         /\ Len(buffer[c]) >= 8
         /\ ~BadPreamble(buffer[c])
         /\ Len(buffer[c]) < 8 + L + 4
         /\ Moves(c))
          => /\ pc'[c] = "recv"
             /\ buffer'[c] = buffer[c]
             /\ frames'[c] = frames[c]
             /\ ConnLog(c)' = ConnLog(c)

\* C4: a frame is emitted for decoding only when all 8 + L + 4 bytes are
\* buffered; a partial frame at the head of the buffer ends the read with
\* no frame emitted, no acknowledgement sent and the buffer unchanged.
C4_WholeFramesOnly == []C4_FrameIsWhole /\ [][C4_PartialWaits]_vars

\* C4 witness: an authenticated thread that has acknowledged a frame waits
\* in recv with the header of the next packet and at least 12 bytes, but
\* not the whole packet, in its buffer.
C4_Witness ==
  \E c \in Conns :
    /\ pc[c] = "recv"
    /\ Truthy(vehicle_id[c])
    /\ taken[c] >= 1
    /\ Len(buffer[c]) >= MinPacket
    /\ ~BadPreamble(buffer[c])
    /\ Len(buffer[c]) < HeadPacketSize(buffer[c])

\* C5: whenever an authenticated thread waits for input, no complete frame
\* is left at the head of its buffer.
C5_NoCompleteFrameWaiting ==
  \A c \in Conns :
    (pc[c] = "recv" /\ Truthy(vehicle_id[c])) => ~CompleteFrameAtHead(buffer[c])

\* C6 as stated: after authentication, whenever the first 4 bytes of the
\* buffer are not all zero the scan drops exactly one byte and rescans.
C6_DropsOnAnyBadPreamble ==
  [][\A c \in Conns :
       (/\ pc[c] = "scan"
        /\ Truthy(vehicle_id[c])
        /\ Len(buffer[c]) >= 4
        /\ BadPreamble(buffer[c])
        /\ Moves(c))
         => /\ buffer'[c] = SliceFrom(buffer[c], 1)
            /\ pc'[c] = "scan"]_vars

\* C6 amended: after authentication, when at least 12 bytes are buffered
\* and the first 4 are not all zero, the scan drops exactly one byte from
\* the front and rescans; the step does not close the connection and
\* produces no frame and no acknowledgement.  With fewer than 12 bytes
\* buffered the scan looks at no preamble: it leaves the buffer as it is
\* and waits for the next read.
C6_DropsOneByte ==
  /\ [][\A c \in Conns :
       (/\ pc[c] = "scan"
        /\ Truthy(vehicle_id[c])
        /\ Len(buffer[c]) >= MinPacket
        /\ BadPreamble(buffer[c])
        /\ Moves(c))
         => /\ buffer'[c] = SliceFrom(buffer[c], 1)
            /\ pc'[c] = "scan"
            /\ frames'[c] = frames[c]
            /\ taken'[c] = taken[c]
            /\ ConnLog(c)' = ConnLog(c)]_vars
  /\ [][\A c \in Conns :
          (pc[c] = "scan" /\ Len(buffer[c]) < MinPacket /\ Moves(c))
            => /\ buffer'[c] = buffer[c]
               /\ pc'[c] = "recv"
               /\ ConnLog(c)' = ConnLog(c)]_vars

\* C6 witness: the vehicle's device was accepted, then three bytes that
\* belong to no frame were dropped one by one, and the thread rescans.
C6_Witness ==
  \E c \in Conns :
    /\ imei[c] = ImeiA
    /\ Truthy(vehicle_id[c])
    /\ pc[c] = "scan"
    /\ frames[c] = 0
    /\ removed[c] = Len(Handshake(ImeiA)) + Len(Garbage)
    /\ ~BadPreamble(buffer[c])

C8_OneAckPerFrame ==
  \A c \in Conns : Cardinality(Events(c, {"ack"})) = taken[c]

\* C8 witness: two frames, one of them of an unsupported codec, have been
\* removed from the buffer of an authenticated connection.
C8_Witness ==
  \E c \in Conns :
    /\ Truthy(vehicle_id[c])
    /\ taken[c] = 2
    /\ \E k \in Events(c, {"ack"}) : log[k].bytes = <<0, 0, 0, 3>>

\* C9: within a connection frames are processed in arrival order and the
\* records of a frame in their order in the frame; the acknowledgement of
\* a frame comes after every sink call for its records and before anything
\* of the next frame.
C9_InOrder ==
  \A c \in Conns : \A p, q \in Events(c, FrameKinds) :
    p < q =>
      /\ log[p].n <= log[q].n
      /\ log[p].n = log[q].n =>
           /\ log[q].kind # "frame"
           /\ log[p].kind # "ack"
           /\ (log[p].kind \in SinkKinds /\ log[q].kind \in SinkKinds) =>
                /\ log[p].i <= log[q].i
                /\ log[p].i < log[q].i => log[p].offset < log[q].offset
                /\ log[p].i = log[q].i => log[p].offset = log[q].offset

\* C9 witness: both records of the first frame went to the sink, the frame
\* was acknowledged, then the record of the second frame went to the sink
\* and that frame was acknowledged.
C9_Witness ==
  \E c \in Conns :
    \E a, b, k1, d, k2 \in Events(c, FrameKinds) :
      /\ a < b /\ b < k1 /\ k1 < d /\ d < k2
      /\ log[a].kind \in SinkKinds /\ log[a].n = 1 /\ log[a].i = 0
      /\ log[b].kind \in SinkKinds /\ log[b].n = 1 /\ log[b].i = 1
      /\ log[k1].kind = "ack" /\ log[k1].n = 1
      /\ log[d].kind \in SinkKinds /\ log[d].n = 2
      /\ log[k2].kind = "ack" /\ log[k2].n = 2

NewData(c) == SubSeq(stream[c], delivered[c] + 1, delivered'[c])

\* the handshake replies sent on connection c, in order
Replies(c) == SelectSeq(log, LAMBDA e : e.conn = c /\ e.kind = "reply")

\* C11: a connection on which a complete handshake has been received sends
\* exactly one reply byte, before any frame acknowledgement: 0x01 when the
\* identifier resolves (the session is then bound to the vehicle the
\* directory gives), 0x00 otherwise; a connection with a complete handshake
\* is never closed without a reply byte (unless sending the byte failed).
C11_OneReplyPerHandshake ==
  \A c \in Conns :
    /\ Len(Replies(c)) <= 1
    /\ \A k \in Events(c, {"ack"}) : \E j \in Events(c, {"reply"}) : j < k
    /\ \A k \in Events(c, {"reply"}) :
         IF Truthy(vehicle_id[c])
         THEN log[k].bytes = <<1>> /\ vehicle_id[c] = VehicleTable(imei[c])
         ELSE log[k].bytes = <<0>>
    /\ (/\ pc[c] = "closed"
        /\ HandshakeComplete(Received(c))
        /\ Events(c, {"send_fail"}) = {})
         => Len(Replies(c)) = 1

\* C12, the state: a session whose identifier did not resolve is closed,
\* and a connection has at most one handshake reply.
C12_RejectedIsClosed ==
  \A c \in Conns :
    /\ (imei[c] # NoneBytes /\ ~Truthy(vehicle_id[c])) => pc[c] = "closed"
    /\ Truthy(vehicle_id[c]) => imei[c] # NoneBytes
    /\ Len(Replies(c)) <= 1

\* C12, the steps: once an identifier has been read it and the vehicle
\* bound to it never change and no further handshake reply is sent; a
\* closed connection reads, sends and processes nothing.
C12_NoWayBack ==
  \A c \in Conns :
    /\ imei[c] # NoneBytes =>
         /\ imei'[c] = imei[c]
         /\ vehicle_id'[c] = vehicle_id[c]
         /\ Replies(c)' = Replies(c)
    /\ pc[c] = "closed" =>
         /\ ConnState(c)' = ConnState(c)
         /\ ConnLog(c)' = ConnLog(c)
         /\ <<delivered[c], removed[c], frames[c], taken[c]>>'
              = <<delivered[c], removed[c], frames[c], taken[c]>>

\* C12: the handshake state only moves from awaiting the identifier to
\* authenticated, or to rejected and closed: the handshake runs at most
\* once per connection, after it no received bytes are taken for an
\* identifier, the bound vehicle never changes, and nothing is sent or
\* processed after the connection is closed.
C12_HandshakeOnce == []C12_RejectedIsClosed /\ [][C12_NoWayBack]_vars

\* C12 witness: an authenticated connection has acknowledged a frame whose
\* first bytes would pass for a handshake, and has then been closed.
C12_Witness ==
  \E c \in Conns :
    /\ pc[c] = "closed"
    /\ Truthy(vehicle_id[c])
    /\ imei[c] = ImeiA
    /\ taken[c] >= 1
    /\ delivered[c] = Len(stream[c])
    /\ Len(Replies(c)) = 1

\* C13 as stated: once the complete identifier has been received its 2 + N
\* bytes are removed from the buffer, whether the directory accepts or
\* rejects it.
C13_IdentifierAlwaysRemoved ==
  [][\A c \in Conns :
       (imei[c] = NoneBytes /\ imei'[c] # NoneBytes)
         => buffer'[c] = SliceFrom(buffer[c] \o NewData(c), 2 + Len(imei'[c]))]_vars

\* C13 amended: when the directory accepts the identifier its 2 + N bytes
\* are removed from the buffer; when it rejects the identifier the buffer
\* keeps them and the connection is closed, so that nothing is read from
\* the buffer again.
C13_IdentifierRemovedOnAccept ==
  [][\A c \in Conns :
       (imei[c] = NoneBytes /\ imei'[c] # NoneBytes)
         => IF Truthy(vehicle_id'[c])
            THEN /\ buffer'[c] = SliceFrom(buffer[c] \o NewData(c), 2 + Len(imei'[c]))
                 /\ removed'[c] = removed[c] + 2 + Len(imei'[c])
            ELSE /\ buffer'[c] = buffer[c] \o NewData(c)
                 /\ removed'[c] = removed[c]
                 /\ pc'[c] = "closed"]_vars

\* C13 witness: an identifier no vehicle has was rejected, and the closed
\* connection's buffer still begins with the handshake.
C13_Witness ==
  \E c \in Conns :
    /\ imei[c] = ImeiUnknown
    /\ pc[c] = "closed"
    /\ removed[c] = 0
    /\ Slice(buffer[c], 0, 3) = Handshake(ImeiUnknown)
    /\ Replies(c) = <<[kind |-> "reply", conn |-> c, n |-> 0, bytes |-> <<0>>]>>

\* the codec byte of the packet a frame event stands for
CodecOf(e) == stream[e.conn][e.at + 9]

\* C14, the log: no record of a frame whose codec is neither 0x08 nor 0x8E
\* is decoded or given to the sink.
C14_NoRecordOfUnsupported ==
  \A c \in Conns : \A k \in Events(c, {"frame"}) :
    CodecOf(log[k]) \notin {8, 142} =>
      \A j \in Events(c, SinkKinds \cup {"parse_fail"}) : log[j].n # log[k].n

\* C14, the steps: a complete packet of another codec at the head of the
\* buffer is taken without touching the filter's table, and the next step
\* sends its declared record count, removes it from the buffer and scans
\* on; only a failure of that send closes the connection.
C14_UnsupportedAcked ==
  \A c \in Conns :
    /\ (/\ pc[c] = "scan"
        /\ CompleteFrameAtHead(buffer[c])
        /\ buffer[c][9] \notin {8, 142}
        /\ Moves(c))
         => /\ pc'[c] = "ack"
            /\ buffer'[c] = buffer[c]
            /\ last_saved_telemetry' = last_saved_telemetry
    /\ (/\ pc[c] = "ack"
        /\ buffer[c][9] \notin {8, 142}
        /\ Moves(c))
         => /\ last_saved_telemetry' = last_saved_telemetry
            /\ \/ /\ pc'[c] = "scan"
                  /\ buffer'[c] = SliceFrom(buffer[c], 8 + FromBytes(Slice(buffer[c], 4, 8)) + 4)
                  /\ taken'[c] = taken[c] + 1
                  /\ log' = Append(log, [kind |-> "ack", conn |-> c, n |-> frames[c],
                                          bytes |-> <<0, 0, 0, buffer[c][10]>>])
               \/ /\ pc'[c] = "closed"
                  /\ log' = Append(log, [kind |-> "send_fail", conn |-> c, n |-> frames[c]])

\* C14: a complete frame whose codec identifier is neither 0x08 nor 0x8E is
\* removed from the buffer and acknowledged with its declared record count;
\* no record of it is decoded, evaluated by the filter or sent to the sink,
\* the filter's table is unchanged, and the connection stays open (the
\* acknowledgement being sent).
C14_UnsupportedCodec == []C14_NoRecordOfUnsupported /\ [][C14_UnsupportedAcked]_vars

\* C14 witness: a frame of codec 7 that declares three records has been
\* acknowledged with 3 and removed; the connection is open and the filter
\* has no state.
C14_Witness ==
  \E c \in Conns :
    /\ Truthy(vehicle_id[c])
    /\ pc[c] \in {"scan", "recv"}
    /\ last_saved_telemetry = <<>>
    /\ \E k \in Events(c, {"frame"}) : \E j \in Events(c, {"ack"}) :
         /\ CodecOf(log[k]) = 7
         /\ log[j].n = log[k].n
         /\ log[j].bytes = <<0, 0, 0, 3>>
         /\ removed[c] >= log[k].at + log[k].size

(***************************************************************************)
(* Claims about the filter                                                 *)
(***************************************************************************)
\* the positions of the log that hold a call of store_telemetry
Stores == {k \in 1..Len(log) : log[k].kind = "store"}

\* what should_save_telemetry answered in the call the event stands for
Decision(e) == should_save_telemetry(e.cache, e.at, e.vid, e.rec)

\* the vehicle had an entry in the table when the call was made
HadEntry(e) == e.vid \in DOMAIN e.cache

\* seconds between the call and the timestamp of the vehicle's entry
Elapsed(e) == e.at - e.cache[e.vid].timestamp

\* the shortest angular distance between two headings, wrapping at 360
Turn(a, b) == LET d == Abs(a - b) % 360 IN Min2(d, 360 - d)

\* The number of the first rule of the ordered list that is true for the
\* call: 1 no prior state, 2 keep-alive, 3 distance, 4 moving interval,
\* 5 stationary interval, 6 speed delta, 7 heading delta while moving,
\* 8 satellite delta, 9 none (reject).
FirstTrueRule(e) ==
  IF ~HadEntry(e) THEN 1
  ELSE
    LET last == e.cache[e.vid].data
        displacement_sq == haversine_distance_sq(last.latitude, last.longitude,
                                                 e.rec.latitude, e.rec.longitude)
    IN  IF Elapsed(e) >= MAX_TIME_WITHOUT_SAVE THEN 2
        ELSE IF displacement_sq >= MIN_DISTANCE_METERS * MIN_DISTANCE_METERS THEN 3
        ELSE IF e.rec.speed >= MIN_SPEED_KMH /\ Elapsed(e) >= MIN_TIME_INTERVAL_MOVING THEN 4
        ELSE IF e.rec.speed < MIN_SPEED_KMH /\ Elapsed(e) >= MIN_TIME_INTERVAL_STATIONARY
          THEN 5
        ELSE IF Abs(e.rec.speed - last.speed) >= MIN_SPEED_KMH THEN 6
        ELSE IF e.rec.speed >= MIN_SPEED_KMH /\ Turn(e.rec.angle, last.angle) >= 30 THEN 7
        ELSE IF Abs(e.rec.satellites - last.satellites) >= 3 THEN 8
        ELSE 9

\* the rule a reason of should_save_telemetry belongs to
RuleOfReason(reason) ==
  CASE reason = "first" -> 1
    [] reason = "max_time" -> 2
    [] reason = "distance" -> 3
    [] reason = "moving" -> 4
    [] reason = "stationary" -> 5
    [] reason = "speed_change" -> 6
    [] reason = "direction" -> 7
    [] reason = "gps_quality" -> 8
    [] reason = "filtered" -> 9

C16_FirstThenSame ==
  \A k \in Stores :
    LET e == log[k]
    IN  /\ ~HadEntry(e) => Decision(e) = <<TRUE, "first">>
        /\ Decision(e)[2] = "first" => ~HadEntry(e)
        /\ (Decision(e)[2] = "first" /\ e.reason # "database_error") =>
             /\ e.stored
             /\ e.vid \in DOMAIN last_saved_telemetry
        /\ (/\ HadEntry(e)
            /\ Elapsed(e) = 1
            /\ e.rec.speed = 0
            /\ e.cache[e.vid].data = e.rec)
             => /\ Decision(e)[1] = FALSE
                /\ ~e.stored
                /\ Events(0, {"record"}) \subseteq 1..(k - 1)

\* C16, the steps: a vehicle that has an entry in the table keeps one.
C16_EntryStays ==
  \A v \in DOMAIN last_saved_telemetry : v \in DOMAIN last_saved_telemetry'

\* C16: see C16_FirstThenSame and C16_EntryStays.  The first point of a
\* vehicle without Filter State is accepted, the same point with speed 0
\* one second later is rejected, and the first-point rule fires at most
\* once per vehicle while the sink works.
C16_FirstPointOnce == []C16_FirstThenSame /\ [][C16_EntryStays]_vars

\* C16 witness: the first point of the vehicle was written, and the same
\* point, at rest, was skipped one second later.
C16_Witness ==
  \E k \in Stores :
    /\ HadEntry(log[k])
    /\ Elapsed(log[k]) = 1
    /\ log[k].rec.speed = 0
    /\ log[k].cache[log[k].vid].data = log[k].rec
    /\ log[k].reason = "filtered"
    /\ \E j \in Events(0, {"record"}) : j < k /\ log[j].rec = log[k].rec

\* C17: a point whose displacement from the vehicle's last saved point is
\* at least the minimum distance is accepted, whatever the elapsed time,
\* the speed, the heading and the satellite count.
C17_DistanceDominates ==
  \A k \in Stores :
    LET e == log[k]
    IN  HadEntry(e) =>
          LET last == e.cache[e.vid].data
          IN  haversine_distance_sq(last.latitude, last.longitude,
                                    e.rec.latitude, e.rec.longitude)
                >= MIN_DISTANCE_METERS * MIN_DISTANCE_METERS
              => /\ Decision(e)[1]
                 /\ e.stored \/ e.reason = "database_error"

\* C17 witness: a point 100 m from the last saved one, sent at once, at
\* rest, with the same heading and satellites, was written for its
\* distance.
C17_Witness ==
  \E k \in Stores :
    /\ HadEntry(log[k])
    /\ Elapsed(log[k]) = 0
    /\ log[k].cache[log[k].vid].data = Point(LatHome, 10, 8, 0)
    /\ log[k].rec = Point(LatFar, 10, 8, 0)
    /\ log[k].reason = "distance"
    /\ log[k].stored

\* the rows written for vehicle v that the log remembers
RowsOf(v) == {k \in 1..Len(log) : log[k].kind = "record" /\ log[k].vid = v}

\* C18: a point evaluated at least the maximum keep-alive interval after
\* the vehicle's last saved point is accepted by the keep-alive rule, even
\* when nothing about the point has changed, and with a working sink it is
\* written and becomes the vehicle's entry; so no point that the filter
\* rejects comes that long after the last acceptance, and the points of a
\* span longer than the interval are never all rejected.
C18_KeepAlive ==
  \A k \in Stores :
    LET e == log[k]
    IN  /\ (HadEntry(e) /\ Elapsed(e) >= MAX_TIME_WITHOUT_SAVE) =>
             /\ Decision(e) = <<TRUE, "max_time">>
             /\ e.reason # "database_error" =>
                  /\ e.stored
                  /\ last_saved_telemetry[e.vid] = [data |-> e.rec, timestamp |-> e.at]
        /\ (HadEntry(e) /\ ~Decision(e)[1]) => Elapsed(e) < MAX_TIME_WITHOUT_SAVE

\* C18 witness: a vehicle at rest sends the point it sent an hour ago, with
\* nothing changed; the point is written for the keep-alive rule.
C18_Witness ==
  \E k \in Stores :
    /\ HadEntry(log[k])
    /\ Elapsed(log[k]) = MAX_TIME_WITHOUT_SAVE
    /\ log[k].rec.speed = 0
    /\ log[k].cache[log[k].vid].data = log[k].rec
    /\ log[k].reason = "max_time"
    /\ log[k].stored
    /\ last_saved_telemetry[log[k].vid].timestamp = log[k].at

\* C19: a call whose point the filter rejects leaves the whole table as it
\* found it and writes no row; in every state the entry of a vehicle holds
\* a point that the filter accepted and the sink wrote for that vehicle.
C19_RejectLeavesTable ==
  /\ \A k \in Stores :
       ~Decision(log[k])[1] =>
         /\ last_saved_telemetry = log[k].cache
         /\ ~log[k].stored
         /\ \A j \in RowsOf(log[k].vid) : j < k
  /\ \A v \in DOMAIN last_saved_telemetry :
       \E j \in RowsOf(v) : log[j].rec = last_saved_telemetry[v].data

\* C19 witness: a point that differs from the vehicle's entry (another
\* heading, at rest) was rejected, and the entry is still the older point.
C19_Witness ==
  \E k \in Stores :
    /\ HadEntry(log[k])
    /\ log[k].reason = "filtered"
    /\ log[k].rec.angle = 200
    /\ last_saved_telemetry[log[k].vid].data # log[k].rec
    /\ last_saved_telemetry[log[k].vid] = log[k].cache[log[k].vid]
    /\ last_saved_telemetry[log[k].vid].timestamp < log[k].at

\* C20: when the filter accepts a point and the write to the sink fails,
\* the table is left exactly as it was (the next point meets the same
\* baseline); in every state a vehicle has an entry exactly when a row has
\* been written for it, and the entry is the latest row written.
C20_FailedWriteLeavesTable ==
  /\ \A k \in Stores :
       log[k].reason = "database_error" =>
         /\ Decision(log[k])[1]
         /\ ~log[k].stored
         /\ last_saved_telemetry = log[k].cache
  /\ \A v \in Vehicles :
       IF RowsOf(v) = {} THEN v \notin DOMAIN last_saved_telemetry
       ELSE /\ v \in DOMAIN last_saved_telemetry
            /\ \E j \in RowsOf(v) :
                 /\ \A m \in RowsOf(v) : m <= j
                 /\ last_saved_telemetry[v].data = log[j].rec
                 /\ \A k \in Stores : k < j => last_saved_telemetry[v].timestamp = log[k].at

\* C20 witness: a point 100 m from the vehicle's entry was accepted, its
\* write failed, and the entry is still the point written before.
C20_Witness ==
  \E k \in Stores :
    /\ HadEntry(log[k])
    /\ log[k].reason = "database_error"
    /\ log[k].rec = Point(LatFar, 10, 8, 0)
    /\ last_saved_telemetry[log[k].vid].data = Point(LatHome, 10, 8, 0)
    /\ \E j \in RowsOf(log[k].vid) : j < k /\ log[j].rec = Point(LatHome, 10, 8, 0)
    /\ \E j \in Events(0, {"record_fail"}) : j > k

(***************************************************************************)
(* C21: the status update of an evaluated point                            *)
(***************************************************************************)
\* the calls to update_vehicle_status that follow the call at position k
StatusUpdatesAfter(k) == {j \in Events(0, {"status", "status_fail"}) : j > k /\ log[j].vid = log[k].vid}

\* C21: every point the filter evaluates triggers exactly one update of the
\* vehicle's status, whether the point was rejected, accepted and written,
\* or accepted and not written because the write to the sink failed.
C21_OneStatusPerPoint ==
  \A k \in Stores : Cardinality(StatusUpdatesAfter(k)) = 1

(***************************************************************************)
(* Two connections of one vehicle inside store_telemetry                   *)
(*                                                                         *)
(* run_server starts one thread per connection; last_saved_telemetry is a  *)
(* module-level dict that every thread reads in should_save_telemetry and  *)
(* writes after its INSERT, without a lock. Between the reading and the    *)
(* writing the thread waits for the database, so another thread may run.   *)
(* Here both connections have been accepted for vehicle 1 and are in their *)
(* record loops; stream[c] holds the records the frames of c decode to,    *)
(* taken[c] how many of them c has stored, and loc[c] the locals of the    *)
(* call of store_telemetry that c is in.                                   *)
(***************************************************************************)
\* the records two devices of one vehicle report: the same place, and a
\* place 100 m away
RaceStreams ==
  { <<Point(LatHome, 10, 8, 0)>>,
    <<Point(LatFar, 10, 8, 0)>>,
    <<Point(LatHome, 10, 8, 0), Point(LatFar, 10, 8, 0)>> }

InitRace ==
  /\ pc = [c \in Conns |-> "records"]
  /\ buffer = [c \in Conns |-> <<>>]
  /\ imei = [c \in Conns |-> ImeiA]
  /\ vehicle_id = [c \in Conns |-> VehicleTable(ImeiA)]
  /\ loc = [c \in Conns |-> NoFrame]
  /\ stream \in [Conns -> RaceStreams]
  /\ delivered = [c \in Conns |-> 0]
  /\ removed = [c \in Conns |-> 0]
  /\ frames = [c \in Conns |-> 0]
  /\ taken = [c \in Conns |-> 0]
  /\ last_saved_telemetry = <<>>
  /\ now = 0
  /\ ticks = 0
  /\ faults = 0
  /\ log = <<>>

\* store_telemetry up to the INSERT: should_save_telemetry reads the table;
\* a rejected point updates the vehicle's status and the call returns, an
\* accepted point goes on to the database.
Decide(c) ==
  /\ pc[c] = "records"
  /\ taken[c] < Len(stream[c])
  /\ LET telemetry_data == stream[c][taken[c] + 1]
         decision == should_save_telemetry(last_saved_telemetry, now, vehicle_id[c],
                                           telemetry_data)
         call == [kind |-> "decide", conn |-> c, n |-> 0, i |-> taken[c], offset |-> 0,
                  vid |-> vehicle_id[c], rec |-> telemetry_data, at |-> now,
                  cache |-> last_saved_telemetry, reason |-> decision[2]]
     IN  IF decision[1]
         THEN /\ pc' = [pc EXCEPT ![c] = "insert"]
              /\ loc' = [loc EXCEPT ![c] = [telemetry_data |-> telemetry_data,
                                            reason |-> decision[2]]]
              /\ log' = Append(log, call)
              /\ UNCHANGED <<taken, faults>>
         ELSE \E statusFails \in FaultChoices(1) :
              /\ log' = Append(log, call)
                          \o Tagged(<<update_vehicle_status(vehicle_id[c], telemetry_data,
                                                            statusFails)>>,
                                    c, 0, taken[c], 0)
              /\ faults' = faults + Bit(statusFails)
              /\ taken' = [taken EXCEPT ![c] = @ + 1]
              /\ UNCHANGED <<pc, loc>>
  /\ UNCHANGED <<buffer, imei, vehicle_id, stream, delivered, removed, frames,
                 last_saved_telemetry, now, ticks>>

\* store_telemetry from the INSERT on: the row is written, the table gets
\* the point as the vehicle's entry and the status is updated; when the
\* INSERT raises, the except branch returns.
Insert(c) ==
  /\ pc[c] = "insert"
  /\ \E insertFails \in FaultChoices(1) :
     \E statusFails \in FaultChoices(1 + Bit(insertFails)) :
       LET telemetry_data == loc[c].telemetry_data
           calls == IF insertFails
                    THEN <<[kind |-> "record_fail", vid |-> vehicle_id[c],
                            rec |-> telemetry_data]>>
                    ELSE <<[kind |-> "record", vid |-> vehicle_id[c],
                            rec |-> telemetry_data],
                           update_vehicle_status(vehicle_id[c], telemetry_data,
                                                 statusFails)>>
       IN  /\ statusFails => ~insertFails
           /\ last_saved_telemetry' =
                IF insertFails
                THEN CacheAfterFailure(last_saved_telemetry, now, vehicle_id[c],
                                       telemetry_data)
                ELSE CacheAfterInsert(last_saved_telemetry, now, vehicle_id[c],
                                      telemetry_data)
           /\ faults' = faults + Bit(insertFails) + Bit(statusFails)
           /\ log' = log \o Tagged(calls, c, 0, taken[c], 0)
  /\ pc' = [pc EXCEPT ![c] = "records"]
  /\ loc' = [loc EXCEPT ![c] = NoFrame]
  /\ taken' = [taken EXCEPT ![c] = @ + 1]
  /\ UNCHANGED <<buffer, imei, vehicle_id, stream, delivered, removed, frames, now, ticks>>

NextRace ==
  \/ \E c \in Conns : Decide(c)
  \/ \E c \in Conns : Insert(c)
  \/ Pass

RaceSpec == InitRace /\ [][NextRace]_vars

(***************************************************************************)
(* C22: one vehicle reported over two connections                          *)
(***************************************************************************)
\* the readings of the table by should_save_telemetry, and the rows written
Decisions == {k \in 1..Len(log) : log[k].kind = "decide"}
Rows == {k \in 1..Len(log) : log[k].kind = "record"}

\* the reading of the table that led to the row at position j
DecisionOf(j) ==
  CHOOSE k \in Decisions :
    /\ k < j
    /\ log[k].conn = log[j].conn
    /\ log[k].i = log[j].i

\* C22: the accesses to one vehicle's entry are serialized across the
\* connections: between the reading of the table that accepts a point and
\* the writing of that point no other point of the vehicle is written, so
\* every point is accepted against the state the latest accepted point
\* left; and the first-point rule accepts at most one point of a vehicle
\* that starts with no entry.
C22_Serialized ==
  /\ \A j \in Rows : \A m \in Rows :
       log[m].vid = log[j].vid => ~(DecisionOf(j) < m /\ m < j)
  /\ \A v \in Vehicles :
       Cardinality({j \in Rows : log[j].vid = v /\ log[DecisionOf(j)].reason = "first"}) <= 1

(***************************************************************************)
(* Two connections served at once: run_server starts a handle_client       *)
(* thread for each; both have just been accepted.                          *)
(***************************************************************************)
\* what the two devices send: the first the identifier of vehicle 2 and a
\* frame of one record; the second an identifier no vehicle has, or the
\* identifier of vehicle 2, three bytes of no frame and a frame without
\* records
PairWires ==
  { <<Handshake(ImeiB) \o FrameOne, Handshake(ImeiUnknown)>>,
    <<Handshake(ImeiB) \o FrameOne, Handshake(ImeiB) \o Garbage \o FrameEmpty>> }

InitPair ==
  /\ pc = [c \in Conns |-> "recv"]
  /\ buffer = [c \in Conns |-> <<>>]
  /\ imei = [c \in Conns |-> NoneBytes]
  /\ vehicle_id = [c \in Conns |-> NoneId]
  /\ loc = [c \in Conns |-> NoFrame]
  /\ stream \in PairWires
  /\ delivered = [c \in Conns |-> 0]
  /\ removed = [c \in Conns |-> 0]
  /\ frames = [c \in Conns |-> 0]
  /\ taken = [c \in Conns |-> 0]
  /\ last_saved_telemetry = <<>>
  /\ now = 0
  /\ ticks = 0
  /\ faults = 0
  /\ log = <<>>

PairSpec == InitPair /\ [][Next]_vars

(***************************************************************************)
(* C23: what two connections share                                         *)
(***************************************************************************)
\* the step is one that connection c's thread takes
StepOf(c) ==
  \/ Recv(c)
  \/ RecvEof(c)
  \/ ScanWait(c)
  \/ Resync(c)
  \/ BeginFrame(c)
  \/ RecordStep(c)
  \/ SendAck(c)

\* C23: a step of one connection never changes another connection's buffer,
\* handshake state, identifier, bound vehicle or frame locals: apart from
\* the vehicles table and last_saved_telemetry the connections share no
\* mutable state.
C23_OwnStateOnly ==
  [][\A c \in Conns : StepOf(c) => \A d \in Conns \ {c} : ConnState(d)' = ConnState(d)]_vars

\* C23 witness: connection 1 is in the record loop of its frame while
\* connection 2, accepted for the same vehicle, has read part of its own
\* frame into its buffer.
C23_Witness ==
  /\ pc[1] = "records"
  /\ vehicle_id[1] = 2
  /\ vehicle_id[2] = 2
  /\ pc[2] = "recv"
  /\ buffer[2] = Garbage \o <<0, 0>>
  /\ buffer[1] = FrameOne

(***************************************************************************)
(* calculate_crc16 (backend/app.py)                                        *)
(*                                                                         *)
(* Python's integers have no width: crc is never masked inside the loops,  *)
(* so it grows by one bit with every shift. A value is kept here in two    *)
(* parts: low, its bits 0..16 as a number, and high, its bits from 17 up   *)
(* as a sequence (bit 17 first).                                           *)
(***************************************************************************)
\* a ^ b for 0 <= a, b < 2^17
Xor17(a, b) ==
  LET V[k \in 0..17] ==
        IF k = 0 THEN 0
        ELSE V[k - 1] + (((a \div (2 ^ (k - 1))) + (b \div (2 ^ (k - 1)))) % 2) * (2 ^ (k - 1))
  IN  V[17]

\* 0x1021
CrcPoly == 4129

\* crc << 1: bit 16 moves up into the high part
ShiftLeft1(crc) ==
  [low |-> (crc.low * 2) % 131072, high |-> <<crc.low \div 65536>> \o crc.high]

\* a loop body that xors the polynomial in at every pass
CrcShiftAlways(crc) ==
  LET shifted == ShiftLeft1(crc)
  IN  [shifted EXCEPT !.low = Xor17(@, CrcPoly)]

\* crc = crc << 1; if crc & 0x10000: crc ^= 0x1021
CrcShift(crc) ==
  LET shifted == ShiftLeft1(crc)
  IN  IF shifted.low \div 65536 = 1
      THEN [shifted EXCEPT !.low = Xor17(@, CrcPoly)]
      ELSE shifted

\* crc ^= byte << 8, then the eight passes of the inner loop
CrcByte(crc, byte) ==
  CrcShift(CrcShift(CrcShift(CrcShift(CrcShift(CrcShift(CrcShift(CrcShift(
    [crc EXCEPT !.low = Xor17(@, byte * 256)]))))))))

\* calculate_crc16(data): crc = 0, the loop over the bytes, crc & 0xFFFF
RECURSIVE CrcLoop(_, _, _)
CrcLoop(data, done, crc) ==
  \* crc is never negative: the test has the value computed before the
  \* next pass
  IF done = Len(data) \/ crc.low < 0 THEN crc
  ELSE CrcLoop(data, done + 1, CrcByte(crc, data[done + 1]))

calculate_crc16(data) == CrcLoop(data, 0, [low |-> 0, high |-> <<>>]).low % 65536

\* packet[8:-4], what handle_client gives to calculate_crc16
CrcInput(packet) == Slice(packet, 8, Len(packet) - 4)

\* int.from_bytes(packet[-4:], 'big')
ReceivedCrc(packet) == FromBytes(SliceFrom(packet, Len(packet) - 4))

\* the four checksum bytes of a frame with the payload codec, count, records
Crc4(codec, count, records) == ToBytes4(calculate_crc16(<<codec, count>> \o records))

(***************************************************************************)
(* Frames for the decoder: records with I/O elements, records that end     *)
(* before the payload says, a timestamp of 1990                            *)
(***************************************************************************)
\* the 26 bytes of a record before its I/O groups
AvlFixed(ts8, lon4, lat4, alt2, angle, sats, speed, event_io_id, total_io) ==
  ts8 \o <<1>> \o lon4 \o lat4 \o alt2 \o <<angle \div 256, angle % 256>>
    \o <<sats>> \o <<speed \div 256, speed % 256>> \o <<event_io_id, total_io>>

\* 1990-01-01 00:00:00 UTC in milliseconds
Ts1990 == <<0, 0, 0, 146, 243, 151, 60, 0>>

\* one element in each of the four I/O groups: ids 239, 66, 16 and 78
IoOfEach ==
  <<1, 239, 1>> \o <<1, 66, 48, 57>> \o <<1, 16, 0, 0, 1, 0>>
    \o <<1, 78, 0, 0, 0, 0, 0, 0, 0, 7>>

\* 25.2797 W, 54.6872 N, 50 m below sea level, heading 300, 9 satellites,
\* 60 km/h, event 239, four I/O elements: 49 bytes
RecIo ==
  AvlFixed(TsNow, <<240, 238, 159, 184>>, LatHome, <<255, 206>>, 300, 9, 60, 239, 4)
    \o IoOfEach

\* RecHome with the timestamp of 1990
Rec1990 ==
  AvlFixed(Ts1990, <<15, 17, 96, 72>>, LatHome, <<0, 100>>, 0, 8, 0, 0, 0) \o <<0, 0, 0, 0>>

\* a record that ends after its satellites byte: 22 bytes
RecCut == SubSeq(RecAway, 1, 22)

\* a record whose last group announces two elements that do not follow
RecOverrun ==
  AvlFixed(TsNow, <<15, 17, 96, 72>>, LatHome, <<0, 100>>, 0, 8, 0, 0, 2) \o <<0, 0, 0, 2>>

\* a frame with the checksum calculate_crc16 gives for its payload
FrameChecked(codec, count, records) ==
  FrameBytes(codec, count, records, Crc4(codec, count, records))

\* one record declared, 22 bytes of it sent; the checksum bytes 00 28 00 00
\* are not the checksum of the payload
FrameCut == FrameBytes(8, 1, RecCut, <<0, 40, 0, 0>>)
\* one record whose I/O elements are missing
FrameOverrun == FrameChecked(8, 1, RecOverrun)
\* a record of 1990, then a record of today
Frame1990 == FrameChecked(8, 2, Rec1990 \o RecHome)
\* two records, the first with I/O elements, as Codec 8 and as Codec 8 Extended
FrameIo8 == FrameChecked(8, 2, RecIo \o RecHome)
FrameIo142 == FrameChecked(142, 2, RecIo \o RecHome)

\* What a device of vehicle 2 sends after its identifier.
DecodeWires ==
  {Handshake(ImeiB) \o b :
     b \in { FrameCut, FrameOverrun, Frame1990, FrameIo8, FrameIo142,
             FrameShort \o FrameOther, Garbage \o FrameOne }}

InitDecode ==
  /\ pc = [c \in Conns |-> IF c = 1 THEN "recv" ELSE "closed"]
  /\ buffer = [c \in Conns |-> <<>>]
  /\ imei = [c \in Conns |-> NoneBytes]
  /\ vehicle_id = [c \in Conns |-> NoneId]
  /\ loc = [c \in Conns |-> NoFrame]
  /\ stream \in {[c \in Conns |-> IF c = 1 THEN w ELSE <<>>] : w \in DecodeWires}
  /\ delivered = [c \in Conns |-> 0]
  /\ removed = [c \in Conns |-> 0]
  /\ frames = [c \in Conns |-> 0]
  /\ taken = [c \in Conns |-> 0]
  /\ last_saved_telemetry = <<>>
  /\ now = 0
  /\ ticks = 0
  /\ faults = 0
  /\ log = <<>>

DecodeSpec == InitDecode /\ [][Next]_vars

(***************************************************************************)
(* C24 to C27, C29: the records of a frame                                 *)
(***************************************************************************)
\* the frame event of connection c's n-th packet
FrameOf(c, n) == CHOOSE k \in Events(c, {"frame"}) : log[k].n = n

\* the bytes of the packet a frame event stands for
PacketOf(e) == SubSeq(stream[e.conn], e.at + 1, e.at + e.size)

\* the offset in the packet of the first checksum byte
ChecksumAt(e) == e.size - 4

\* C24: every record given to the filter and the sink was decoded entirely
\* from bytes of its frame's declared payload, after the record-count byte
\* and before the four checksum bytes, every element of its four I/O groups
\* included; when a record does not parse, it and the records after it are
\* dropped and the records before it are kept.
C24_DecodedFromPayload ==
  \A c \in Conns :
    /\ \A k \in Events(c, SinkKinds) :
         LET f == log[FrameOf(c, log[k].n)]
             r == parse_avl_record(PacketOf(f), log[k].offset)
         IN  /\ 10 <= log[k].offset
             /\ log[k].offset + r.consumed <= ChecksumAt(f)
    /\ \A p \in Events(c, {"parse_fail"}) :
         /\ \A k \in Events(c, SinkKinds) : log[k].n = log[p].n => log[k].i < log[p].i
         /\ \A i \in 0..(log[p].i - 1) :
              \E k \in Events(c, SinkKinds) : log[k].n = log[p].n /\ log[k].i = i

\* the record-count byte of the packet a frame event stands for
DeclaredCount(e) == stream[e.conn][e.at + 10]

\* the indices of the records of connection c's n-th packet that were
\* decoded and given to the filter
DecodedOf(c, n) == {log[k].i : k \in {j \in Events(c, SinkKinds) : log[j].n = n}}

\* C25: for every frame the number of records decoded and given to the
\* filter is at most the declared count, no pass of the record loop has an
\* index at or above it, and once the frame is acknowledged the number is
\* smaller only when a record did not decode: the record after the decoded
\* ones failed to parse, or the frame's codec is not decoded at all.
C25_AtMostDeclared ==
  \A c \in Conns : \A k \in Events(c, {"frame"}) :
    LET n == log[k].n
        declared == DeclaredCount(log[k])
        decoded == Cardinality(DecodedOf(c, n))
    IN  /\ decoded <= declared
        /\ \A j \in Events(c, SinkKinds \cup {"parse_fail"}) :
             log[j].n = n => log[j].i < declared
        /\ (\E a \in Events(c, {"ack"}) : log[a].n = n) =>
             \/ decoded = declared
             \/ \E p \in Events(c, {"parse_fail"}) : log[p].n = n /\ log[p].i = decoded
             \/ ~SupportedCodec(CodecOf(log[k]))

\* C25 witness: a frame that declares two records and holds one has been
\* acknowledged with one record given to the filter.
C25_Witness ==
  \E k \in Events(1, {"frame"}) :
    /\ PacketOf(log[k]) = FrameShort
    /\ DecodedOf(1, log[k].n) = {0}
    /\ \E a \in Events(1, {"ack"}) : log[a].n = log[k].n
    /\ \E p \in Events(1, {"parse_fail"}) : log[p].n = log[k].n /\ log[p].i = 1

\* 2000-01-01 and 2100-01-01 00:00:00 UTC in milliseconds
Ts2000 == <<0, 0, 0, 220, 106, 207, 172, 0>>
Ts2100 == <<0, 0, 3, 187, 44, 195, 216, 0>>

\* the timestamp lies in the years 2000 to 2099
SaneTimestamp(ts) == ~BytesLess(ts, Ts2000) /\ BytesLess(ts, Ts2100)

\* C26: a decoded record whose timestamp lies before the year 2000 or after
\* 2100 is discarded: it is never passed to the sink's record call and
\* never becomes a vehicle's entry in last_saved_telemetry.
C26_OutOfRangeDiscarded ==
  /\ \A c \in Conns : \A k \in Events(c, {"record", "record_fail"}) :
       SaneTimestamp(log[k].rec.timestamp)
  /\ \A v \in DOMAIN last_saved_telemetry :
       SaneTimestamp(last_saved_telemetry[v].data.timestamp)

\* the records the loop of handle_client decodes from a packet, from pass i
\* at offset on
RECURSIVE DecodedRecords(_, _, _)
DecodedRecords(packet, i, offset) ==
  IF i >= packet[10] THEN <<>>
  ELSE LET r == parse_avl_record(packet, offset)
       IN  IF ~r.ok THEN <<>>
           ELSE <<r.rec>> \o DecodedRecords(packet, i + 1, NextOffset(offset, r.consumed))

\* the packet with the checksum calculate_crc16 gives for its payload
WithChecksum(packet) ==
  SubSeq(packet, 1, Len(packet) - 4) \o ToBytes4(calculate_crc16(CrcInput(packet)))

\* the records of connection c's n-th packet that were given to the filter,
\* in the order of the log
GivenToFilter(c, n) ==
  LET e == SelectSeq(log, LAMBDA x : x.conn = c /\ x.kind \in {"record", "record_fail", "status", "status_fail"}
                                      /\ x.n = n
                                      /\ (x.kind \in {"status", "status_fail"} => x.i \notin
                                            {log[j].i : j \in {m \in Events(c, {"record"}) : log[m].n = n}}))
  IN  [j \in 1..Len(e) |-> e[j].rec]

\* C27: a frame whose checksum bytes are not the checksum of its payload is
\* processed like the same frame with the correct checksum: the records
\* given to the filter are those decoded from the frame with the correct
\* checksum, the acknowledgement is the same and the connection stays open.
C27_ChecksumIgnored ==
  \A c \in Conns : \A a \in Events(c, {"ack"}) :
    LET f == log[FrameOf(c, log[a].n)]
        packet == PacketOf(f)
    IN  (SupportedCodec(packet[9]) /\ ReceivedCrc(packet) # calculate_crc16(CrcInput(packet))) =>
          /\ GivenToFilter(c, log[a].n) = DecodedRecords(WithChecksum(packet), 0, 10)
          /\ log[a].bytes = <<0, 0, 0, WithChecksum(packet)[10]>>

(***************************************************************************)
(* calculate_crc16 on its own: backend/app.py's handle_client takes a      *)
(* packet off its buffer and computes the checksum of packet[8:-4].        *)
(* stream[1] holds the payload the device sent, log what was computed.     *)
(***************************************************************************)
\* the longest payload
MaxCrcLen == 3

\* the byte values of the payloads
CrcBytes == {0, 1, 8, 128, 255}

\* the payloads: every sequence of these bytes up to the longest
CrcPayloads == UNION {[1..n -> CrcBytes] : n \in 0..MaxCrcLen}

\* preamble + payload length + payload + checksum bytes
PacketAround(payload, crc4) == <<0, 0, 0, 0>> \o ToBytes4(Len(payload)) \o payload \o crc4

InitCrc ==
  /\ pc = [c \in Conns |-> IF c = 1 THEN "scan" ELSE "closed"]
  /\ buffer = [c \in Conns |-> <<>>]
  /\ imei = [c \in Conns |-> IF c = 1 THEN ImeiA ELSE NoneBytes]
  /\ vehicle_id = [c \in Conns |-> NoneId]
  /\ loc = [c \in Conns |-> NoFrame]
  /\ stream \in {[c \in Conns |-> IF c = 1 THEN w ELSE <<>>] : w \in CrcPayloads}
  /\ delivered = [c \in Conns |-> 0]
  /\ removed = [c \in Conns |-> 0]
  /\ frames = [c \in Conns |-> 0]
  /\ taken = [c \in Conns |-> 0]
  /\ last_saved_telemetry = <<>>
  /\ now = 0
  /\ ticks = 0
  /\ faults = 0
  /\ log = <<>>

\* received_crc = int.from_bytes(packet[-4:], 'big');
\* calculated_crc = calculate_crc16(packet[8:-4]), for a packet that carries
\* the payload with checksum bytes that match it or not
CheckCrc ==
  /\ log = <<>>
  /\ \E crc4 \in {NoCrc, ToBytes4(calculate_crc16(stream[1]))} :
       LET packet == PacketAround(stream[1], crc4)
       IN  log' = <<[kind |-> "crc", conn |-> 1, n |-> 1, packet |-> packet,
                     received_crc |-> ReceivedCrc(packet),
                     calculated_crc |-> calculate_crc16(CrcInput(packet))]>>
  /\ UNCHANGED <<pc, buffer, imei, vehicle_id, loc, stream, delivered, removed, frames, taken,
                 last_saved_telemetry, now, ticks, faults>>

NextCrc == CheckCrc

CrcSpec == InitCrc /\ [][NextCrc]_vars

(***************************************************************************)
(* C28: the checksum                                                       *)
(***************************************************************************)
\* a ^ b, bit by bit from the lowest
RECURSIVE RefXor(_, _)
RefXor(a, b) ==
  IF a = 0 THEN b
  ELSE IF b = 0 THEN a
  ELSE 2 * RefXor(a \div 2, b \div 2) + ((a + b) % 2)

\* one bit of the reference: the top bit of the 16 decides, the shifted
\* value is masked to 16 bits
RefBit(crc) ==
  IF crc >= 32768 THEN RefXor((crc * 2) % 65536, 4129) ELSE (crc * 2) % 65536

\* CRC-16, polynomial 0x1021, initial value 0, most significant bit first,
\* no final xor, every intermediate value kept within 16 bits
RECURSIVE Crc16Reference(_, _)
Crc16Reference(data, done) ==
  IF done = 0 THEN 0
  ELSE RefBit(RefBit(RefBit(RefBit(RefBit(RefBit(RefBit(RefBit(
         RefXor(Crc16Reference(data, done - 1), data[done] * 256)))))))))

\* the payload of a packet by its length field: the bytes after the preamble
\* and the length, before the checksum
PayloadOf(packet) == SubSeq(packet, 9, 8 + FromBytes(SubSeq(packet, 5, 8)))

\* C28: calculate_crc16 returns the CRC-16 of the reference (polynomial
\* 0x1021, initial value 0, most significant bit first, no final xor), a
\* value in 0..65535; the server computes it over exactly the payload of the
\* packet, without the preamble, the length field and the checksum bytes;
\* the checksum of "123456789" is 0x31C3.
C28_CrcIsReference ==
  /\ \A k \in 1..Len(log) :
       log[k].kind = "crc" =>
         LET payload == PayloadOf(log[k].packet)
         IN  /\ payload = stream[1]
             /\ log[k].calculated_crc = Crc16Reference(payload, Len(payload))
             /\ log[k].calculated_crc \in 0..65535
  /\ log # <<>> => calculate_crc16(<<49, 50, 51, 52, 53, 54, 55, 56, 57>>) = 12739

\* C28 witness: the checksum of a payload of the longest length was
\* computed, it is not 0, and the unmasked value had grown beyond 16 bits
\* with a 1 above bit 16.
C28_Witness ==
  /\ Len(log) = 1
  /\ Len(stream[1]) = MaxCrcLen
  /\ log[1].calculated_crc > 0
  /\ log[1].received_crc = log[1].calculated_crc
  /\ LET crc == CrcLoop(stream[1], 0, [low |-> 0, high |-> <<>>])
     IN  Len(crc.high) = 8 * MaxCrcLen /\ \E b \in 1..Len(crc.high) : crc.high[b] = 1

(***************************************************************************)
(* C29: the layout of a record                                             *)
(***************************************************************************)
\* where a group of I/O elements that starts at `at` ends: one count byte
\* and count elements of width bytes, all of them before `end`; -1 when the
\* group does not fit
GroupEnd(packet, at, width, end) ==
  IF at < 0 \/ at >= end THEN -1
  ELSE IF at + 1 + packet[at + 1] * width > end THEN -1
  ELSE at + 1 + packet[at + 1] * width

\* where the record that starts at `at` ends by the layout: 26 bytes up to
\* the total I/O count, then the groups of 1-, 2-, 4- and 8-byte values;
\* -1 when it does not fit before `end`
LayoutEnd(packet, at, end) ==
  IF at + 26 > end THEN -1
  ELSE GroupEnd(packet, GroupEnd(packet, GroupEnd(packet, GroupEnd(packet, at + 26, 2, end),
                                                   3, end), 5, end), 9, end)

\* the offsets at which the k records that start at `at` start by the
\* layout, followed by the offset at which the last one ends; <<-1>> when a
\* record does not fit
RECURSIVE LayoutStarts(_, _, _, _)
LayoutStarts(packet, at, k, end) ==
  IF k = 0 THEN <<at>>
  ELSE IF LayoutEnd(packet, at, end) = -1 THEN <<-1>>
  ELSE LET rest == LayoutStarts(packet, LayoutEnd(packet, at, end), k - 1, end)
       IN  IF rest = <<-1>> THEN rest ELSE <<at>> \o rest

\* the frame is well formed: its declared records fill its payload exactly
WellFormed(packet) ==
  LET starts == LayoutStarts(packet, 10, packet[10], Len(packet) - 4)
  IN  starts # <<-1>> /\ starts[Len(starts)] = Len(packet) - 4

\* 30 + 2 * n1 + 3 * n2 + 5 * n4 + 9 * n8 for the record at `at`
LayoutSize(packet, at) ==
  LET n1 == packet[at + 27]
      n2 == packet[at + 28 + 2 * n1]
      n4 == packet[at + 29 + 2 * n1 + 3 * n2]
      n8 == packet[at + 30 + 2 * n1 + 3 * n2 + 5 * n4]
  IN  30 + 2 * n1 + 3 * n2 + 5 * n4 + 9 * n8

\* what RecIo decodes to
RecIoDecoded ==
  [timestamp |-> TsNow, priority |-> 1, longitude |-> -252797000, latitude |-> 546872000,
   altitude |-> -50, angle |-> 300, satellites |-> 9, speed |-> 60, event_io_id |-> 239]

C30_CarriesIoAndSignals ==
  \A c \in Conns : \A k \in Events(c, {"record", "record_fail"}) :
    /\ "io_elements" \in DOMAIN log[k].rec
    /\ "signals" \in DOMAIN log[k].rec

(***************************************************************************)
(* store_telemetry on points of every heading the decoder can produce:     *)
(* parse_avl_record takes the heading as an unsigned 16-bit number and     *)
(* checks nothing about it.                                                *)
(***************************************************************************)
\* headings: in 0..359 on both sides of the wrap, and above 359
Headings == {0, 20, 200, 359, 400, 65535}

\* at home with 8 satellites, driving at 40 km/h or at rest
HeadingPoints == {Point(LatHome, h, 8, v) : h \in Headings, v \in {0, 40}}

NextHeading ==
  \/ \E p \in HeadingPoints : Evaluate(1, p)
  \/ Pass

HeadingSpec == InitFilter /\ [][NextHeading]_vars

(***************************************************************************)
(* C31: the heading delta                                                  *)
(***************************************************************************)
\* the angle_diff the direction rule computes for the call
DeltaOf(e) == AngleDiff(e.rec.angle, e.cache[e.vid].data.angle)

\* C31: the heading delta of the direction-change rule is the shortest
\* angular distance between the point's heading and the heading of the
\* vehicle's entry: for every pair of headings the decoder can produce it
\* lies in 0..180, for headings in 0..359 it is min(|a-b|, 360-|a-b|), and
\* the rule accepts only a point whose speed is at least MIN_SPEED_KMH.
C31_ShortestAngle ==
  \A k \in Stores :
    HadEntry(log[k]) =>
      LET a == log[k].rec.angle
          b == log[k].cache[log[k].vid].data.angle
      IN  /\ DeltaOf(log[k]) >= 0
          /\ DeltaOf(log[k]) <= 180
          /\ (a < 360 /\ b < 360) => DeltaOf(log[k]) = Min2(Abs(a - b), 360 - Abs(a - b))
          /\ log[k].reason = "direction" =>
               log[k].rec.speed >= MIN_SPEED_KMH /\ DeltaOf(log[k]) >= 30

(***************************************************************************)
(* The handler with its scheduling: a thread that is inside PHASE 2 or     *)
(* that has to close is not suspended for ever.                            *)
(***************************************************************************)
\* the steps of a thread that do not wait for the device are taken
FairSpec ==
  /\ InitDecode
  /\ [][Next]_vars
  /\ \A c \in Conns :
       WF_vars(ScanWait(c) \/ Resync(c) \/ BeginFrame(c) \/ RecordStep(c) \/ SendAck(c))

(***************************************************************************)
(* C32: the scan of one read ends                                          *)
(***************************************************************************)
\* where PHASE 2 stands
InScan(c) == pc[c] \in {"scan", "records", "ack"}

\* what is left to do in PHASE 2: the bytes of the buffer first, then the
\* rest of the packet being processed (at most 255 records, then the ack)
ScanMeasure(c) ==
  Len(buffer[c]) * 300
    + (CASE pc[c] = "scan" -> 299
         [] pc[c] = "records" -> 1 + loc[c].num_records - loc[c].i
         [] pc[c] = "ack" -> 0
         [] OTHER -> 0)

\* C32: processing one read always terminates. Every step of PHASE 2 ends
\* the scan (back to recv, or the connection closes), or takes bytes off
\* the buffer, or goes on inside the packet at the head of the buffer,
\* whose records are finitely many and which is then taken off the buffer:
\* the measure falls with every step. And a thread in PHASE 2 gets back to
\* waiting for input or closes.
C32_ScanTerminates ==
  /\ [][\A c \in Conns :
          (InScan(c) /\ Moves(c)) =>
            \/ pc'[c] \in {"recv", "closed"}
            \/ /\ InScan(c)'
               /\ ScanMeasure(c)' < ScanMeasure(c)
               /\ (pc[c] = "scan" /\ pc'[c] = "scan") => Len(buffer'[c]) < Len(buffer[c])
               /\ Len(buffer'[c]) <= Len(buffer[c])]_vars
  /\ \A c \in Conns : InScan(c) ~> (pc[c] \in {"recv", "closed"})

\* C32 witness: the scan has dropped bytes that belong to no frame, has
\* taken a packet off the buffer, and the thread is back at recv.
C32_Witness ==
  /\ pc[1] = "recv"
  /\ taken[1] >= 1
  /\ removed[1] = Len(Handshake(ImeiB)) + Len(Garbage) + Len(FrameOne)
  /\ stream[1] = Handshake(ImeiB) \o Garbage \o FrameOne
  /\ buffer[1] = <<>>

(***************************************************************************)
(* Two sessions that end: the device closes, the identifier is rejected,   *)
(* the handler fails                                                       *)
(***************************************************************************)
\* an identifier that is not UTF-8
ImeiBroken == <<255>>

\* connection 1 is accepted, sends a frame after bytes that belong to none
\* and closes; connection 2 is rejected, or its identifier does not decode
CloseWires ==
  { <<Handshake(ImeiB) \o Garbage \o FrameOne, Handshake(ImeiUnknown)>>,
    <<Handshake(ImeiB) \o FrameOne, Handshake(ImeiBroken)>> }

InitClose ==
  /\ pc = [c \in Conns |-> "recv"]
  /\ buffer = [c \in Conns |-> <<>>]
  /\ imei = [c \in Conns |-> NoneBytes]
  /\ vehicle_id = [c \in Conns |-> NoneId]
  /\ loc = [c \in Conns |-> NoFrame]
  /\ stream \in CloseWires
  /\ delivered = [c \in Conns |-> 0]
  /\ removed = [c \in Conns |-> 0]
  /\ frames = [c \in Conns |-> 0]
  /\ taken = [c \in Conns |-> 0]
  /\ last_saved_telemetry = <<>>
  /\ now = 0
  /\ ticks = 0
  /\ faults = 0
  /\ log = <<>>

\* every thread is scheduled, and every device sends what it has to send
\* and then closes: recv returns the bytes, then b''
CloseSpec == InitClose /\ [][Next]_vars /\ \A c \in Conns : WF_vars(StepOf(c))

\* how the session of connection c ended
EndOf(c) ==
  IF \E k \in 1..Len(log) : log[k].conn = c /\ log[k].kind \in {"error", "send_fail"}
  THEN "error"
  ELSE IF imei[c] # NoneBytes /\ ~Truthy(vehicle_id[c]) THEN "rejected" ELSE "eof"

C33_BothClosed ==
  /\ pc[1] = "closed" /\ EndOf(1) = "eof" /\ taken[1] = 1
  /\ pc[2] = "closed" /\ EndOf(2) = "rejected"

(***************************************************************************)
(* run_server: shutdown                                                    *)
(***************************************************************************)
\* KeyboardInterrupt has reached run_server
ShutDown == \E k \in 1..Len(log) : log[k].kind = "shutdown"

\* KeyboardInterrupt in the accept loop: the listening socket is closed,
\* run_server returns and the interpreter exits. The handle_client threads
\* are daemon threads and no one joins them: each one stops where it is
\* and its socket goes with the process.
Shutdown ==
  /\ ~ShutDown
  /\ pc' = [c \in Conns |-> "closed"]
  /\ log' = Append(log, [kind |-> "shutdown", conn |-> 0, n |-> 0])
  /\ UNCHANGED <<buffer, imei, vehicle_id, loc, stream, delivered, removed, frames, taken,
                 last_saved_telemetry, now, ticks, faults>>

NextShutdown == Next \/ Shutdown

ShutdownSpec == InitDecode /\ [][NextShutdown]_vars

\* C34: on shutdown a frame whose processing has started is processed to
\* completion before its connection is closed: no step closes a connection
\* that is in the record loop of a frame or about to acknowledge it, other
\* than the failed send of that acknowledgement.
C34_ShutdownDrains ==
  [][\A c \in Conns :
       (pc[c] \in {"records", "ack"} /\ pc'[c] = "closed") =>
         /\ pc[c] = "ack"
         /\ log' = Append(log, [kind |-> "send_fail", conn |-> c, n |-> frames[c]])]_vars

(***************************************************************************)
(* The scan over bytes that belong to no frame, and over a frame with no   *)
(* payload                                                                 *)
(***************************************************************************)
\* bytes that belong to no frame and end in a zero byte
GarbageZero == <<9, 0>>
\* bytes that belong to no frame: four zero bytes, then what reads as a
\* payload length of 65536
GarbageLength == <<0, 0, 0, 0, 0, 1, 0, 0>>
Garbages == {Garbage, GarbageZero, GarbageLength}

\* a zero preamble, payload length 0, and a checksum whose first two bytes
\* read as codec 8 and one record
FrameNoPayload == <<0, 0, 0, 0>> \o ToBytes4(0) \o <<8, 1, 0, 0>>

\* RecHome sampled 3600 s later
RecLater ==
  AvlFixed(<<0, 0, 1, 139, 208, 28, 86, 128>>, <<15, 17, 96, 72>>, LatHome, <<0, 100>>,
           0, 8, 0, 0, 0) \o <<0, 0, 0, 0>>

\* one frame with two records of the same place, sampled 3600 s apart
FrameApart == FrameBytes(8, 2, RecHome \o RecLater, NoCrc)

\* what the device sends after it is accepted: a frame behind bytes that
\* belong to none, with a further frame behind it; or the frame with no
\* payload; or the frame with two records sampled an hour apart
ScanWires ==
  {Handshake(ImeiB) \o g \o FrameOne \o FrameEmpty : g \in Garbages}
    \cup {Handshake(ImeiB) \o FrameNoPayload \o FrameEmpty}
    \cup {Handshake(ImeiB) \o FrameApart}

InitScan ==
  /\ pc = [c \in Conns |-> IF c = 1 THEN "recv" ELSE "closed"]
  /\ buffer = [c \in Conns |-> <<>>]
  /\ imei = [c \in Conns |-> NoneBytes]
  /\ vehicle_id = [c \in Conns |-> NoneId]
  /\ loc = [c \in Conns |-> NoFrame]
  /\ stream \in {[c \in Conns |-> IF c = 1 THEN w ELSE <<>>] : w \in ScanWires}
  /\ delivered = [c \in Conns |-> 0]
  /\ removed = [c \in Conns |-> 0]
  /\ frames = [c \in Conns |-> 0]
  /\ taken = [c \in Conns |-> 0]
  /\ last_saved_telemetry = <<>>
  /\ now = 0
  /\ ticks = 0
  /\ faults = 0
  /\ log = <<>>

ScanSpec == InitScan /\ [][Next]_vars

\* the stream of connection c is a frame behind the bytes g
Behind(c, g) == stream[c] = Handshake(ImeiB) \o g \o FrameOne \o FrameEmpty

\* where the frame behind g begins in the stream
FrameStart(g) == Len(Handshake(ImeiB)) + Len(g)

\* no packet taken so far begins before the frame behind g
NoneBeforeFrame(c, g) ==
  \A k \in Events(c, {"frame"}) : log[k].at >= FrameStart(g)

\* the frame behind g has been taken with exactly its own bytes
FrameRecovered(c, g) ==
  \E k \in Events(c, {"frame"}) :
    log[k].at = FrameStart(g) /\ log[k].size = Len(FrameOne)

\* C35: resynchronisation recovers framing. With a well-formed frame behind
\* bytes that belong to no frame, and a further frame behind it, no packet
\* is taken that begins before the frame (inside the garbage, or straddling
\* garbage and frame), and when the scan ends with everything the device
\* sent in the buffer behind it, the frame has been taken with exactly its
\* own bytes.
C35_ResyncRecovers ==
  [][\A c \in Conns : \A g \in Garbages :
       Behind(c, g) =>
         /\ NoneBeforeFrame(c, g)'
         /\ (/\ pc[c] = "scan" /\ pc'[c] = "recv"
             /\ delivered[c] = Len(stream[c]) /\ faults = 0) => FrameRecovered(c, g)]_vars

\* the claim holds of garbage that neither ends in zero bytes nor holds
\* four of them: the frame behind it is taken with its own bytes
C35_PlainGarbageRecovered ==
  /\ Behind(1, Garbage)
  /\ pc[1] = "closed"
  /\ \E k \in Events(1, {"frame"}) :
       log[k].at = FrameStart(Garbage) /\ log[k].size = Len(FrameOne)

\* the payload length a taken packet declared
DeclaredLength(e) == e.size - MinPacket

\* C36: the codec id and the record count of a taken packet are read from
\* inside its declared payload: no packet that declares a payload of fewer
\* than 2 bytes is decoded or acknowledged.
C36_CountInsidePayload ==
  \A c \in Conns : \A k \in Events(c, {"frame"}) :
    DeclaredLength(log[k]) < 2 =>
      ~\E a \in Events(c, {"ack", "parse_fail", "record"}) : log[a].n = log[k].n

(***************************************************************************)
(* Two vehicles: connection 1 has been accepted for the vehicle of ImeiA,  *)
(* connection 2 for the vehicle of ImeiB; both are in their record loops   *)
(***************************************************************************)
FleetImei == [c \in Conns |-> IF c = 1 THEN ImeiA ELSE ImeiB]

\* the records the two devices report: one the same place twice, the other a
\* place 100 m away; or both the same place
FleetStreams ==
  { <<a, b>> :
      a \in {<<Point(LatHome, 10, 8, 0), Point(LatHome, 10, 8, 0)>>},
      b \in {<<Point(LatFar, 10, 8, 0)>>, <<Point(LatHome, 10, 8, 0)>>} }

InitFleet ==
  /\ pc = [c \in Conns |-> "records"]
  /\ buffer = [c \in Conns |-> <<>>]
  /\ imei = FleetImei
  /\ vehicle_id = [c \in Conns |-> VehicleTable(FleetImei[c])]
  /\ loc = [c \in Conns |-> NoFrame]
  /\ stream \in FleetStreams
  /\ delivered = [c \in Conns |-> 0]
  /\ removed = [c \in Conns |-> 0]
  /\ frames = [c \in Conns |-> 0]
  /\ taken = [c \in Conns |-> 0]
  /\ last_saved_telemetry = <<>>
  /\ now = 0
  /\ ticks = 0
  /\ faults = 0
  /\ log = <<>>

FleetSpec == InitFleet /\ [][NextRace]_vars

\* the vehicle identities validate_imei can return
DirectoryIds == {VehicleTable(i) : i \in {ImeiA, ImeiB, ImeiUnknown, ImeiBroken}} \ {NoneId}

\* the entry of vehicle v in the table
EntryOf(cache, v) == IF v \in DOMAIN cache THEN <<cache[v]>> ELSE <<>>

MillisBetween(a, b) ==
  (FromBytes(Slice(b, 0, 5)) - FromBytes(Slice(a, 0, 5))) * 16777216
    + FromBytes(Slice(b, 5, 8)) - FromBytes(Slice(a, 5, 8))

\* C38: the elapsed time of the time-based rules is the time between the
\* samples. Of two successive records of one frame that were both given to
\* the store with no failure, the earlier one written, the later one
\* sampled at least MAX_TIME_WITHOUT_SAVE seconds after it is written too.
C38_SampleTime ==
  \A c \in Conns : \A j, k \in Events(c, {"status"}) :
    (/\ faults = 0
     /\ log[j].n = log[k].n /\ log[k].i = log[j].i + 1
     /\ \E r \in Events(c, {"record"}) : log[r].n = log[j].n /\ log[r].i = log[j].i
     /\ MillisBetween(log[j].rec.timestamp, log[k].rec.timestamp)
          >= MAX_TIME_WITHOUT_SAVE * 1000)
      => \E r \in Events(c, {"record"}) : log[r].n = log[k].n /\ log[r].i = log[k].i

====
